---------------------------- MODULE Spec2Model ----------------------------
(***************************************************************************)
(* The orchestration workflow of the financial question-answering          *)
(* assistant (src/src/workflow/workflow.py), with the quality evaluator    *)
(* (src/src/agents/quality_evaluator.py), the request analyst and its      *)
(* rewrite_query (src/src/agents/request_analyst.py) and the supervisor    *)
(* (src/src/agents/supervisor.py).                                         *)
(*                                                                         *)
(* A Python str is modelled as the sequence of its Unicode code points,    *)
(* so that strip(), lower(), len() and the `in` substring test are         *)
(* computed the way the interpreter computes them.  The comment above a    *)
(* text constant shows the literal of the source.                          *)
(***************************************************************************)
EXTENDS Integers, Sequences, FiniteSets, TLC

VARIABLES
    pc,            \* the node the graph executes next, or "END" / "RAISED"
    prev,          \* the node executed last ("START" before the first)
    state,         \* the WorkflowState dict held in the graph's channels
    executed,      \* how often each node was executed
    calls,         \* how often each capability was invoked
    label,         \* request_analyst_node: analysis_result.get("label")
    agent_choice,  \* supervisor_node: the value supervisor() returned
    call_args,     \* a function called on its own: what its capability did
    call_result    \* a function called on its own: what it returned
\* In the specifications of concurrent calls (ConcurrentReportSpec,
\* HistorySpec) pc, call_args and call_result are functions of the call, and
\* state holds what the calls share.

vars ==
    <<pc, prev, state, executed, calls, label, agent_choice,
      call_args, call_result>>

----------------------------------------------------------------------------
(* Bounds of the model.                                                    *)

\* longest question passed to run()
MaxQLen == 5
\* most whitespace characters put on either side of an evaluated answer
MaxPad == 1
\* most pieces an evaluated answer is concatenated from
MaxPieces == 3
\* most executions of a node, and calls of a capability, that are counted
MaxCount == 4
\* most chart tool calls of one generate_report invocation
MaxToolCalls == 2
\* most calls one thread makes on the ChatHistoryDB
MaxCalls == 2

----------------------------------------------------------------------------
(* Python str operations on code-point sequences.                          *)

\* the code points c with chr(c).isspace(): what str.strip() removes
Whitespace ==
    {9, 10, 11, 12, 13, 28, 29, 30, 31, 32, 133, 160, 5760, 8232, 8233, 8239,
     8287, 12288} \cup (8192..8202)

RECURSIVE LStrip(_)
LStrip(s) ==
    IF s # <<>> /\ Head(s) \in Whitespace THEN LStrip(Tail(s)) ELSE s

RECURSIVE RStrip(_)
RStrip(s) ==
    IF s # <<>> /\ s[Len(s)] \in Whitespace
    THEN RStrip(SubSeq(s, 1, Len(s) - 1))
    ELSE s

\* s.strip()
Strip(s) == RStrip(LStrip(s))

\* c.lower() for one code point: the cased code points of the texts used
\* here are the ASCII letters; Hangul, digits and punctuation have no case
LowerChar(c) == IF c \in 65..90 THEN c + 32 ELSE c

\* s.lower()
Lower(s) == [i \in 1..Len(s) |-> LowerChar(s[i])]

\* k in s  (substring test)
Contains(s, k) ==
    \E i \in 0..(Len(s) - Len(k)) : SubSeq(s, i + 1, i + Len(k)) = k

\* Python None where a str is expected: no str contains the code point -1
None == <<-1>>

----------------------------------------------------------------------------
(* String literals of the source.                                          *)

\* workflow.py:104: "질문이 비어 있어 답변을 드릴 수 없습니다."
EMPTY_QUESTION_ANSWER ==
    <<51656, 47928, 51060, 32, 48708, 50612, 32, 51080, 50612, 32, 45813, 48320, 51012, 32,
       46300, 47540, 32, 49688, 32, 50630, 49845, 45768, 45796, 46>>

\* workflow.py:114 (default of .get): "경제, 금융관련 질문이 아닙니다."
NOT_FINANCE_DEFAULT_ANSWER ==
    <<44221, 51228, 44, 32, 44552, 50997, 44288, 47144, 32, 51656, 47928, 51060, 32, 50500,
       45785, 45768, 45796, 46>>

\* utils/config.py:67: "저는 경제, 금융관련 정보를 통해 전문적으로 사용자의 요청을 도와드리는 AI입니다!\n주식, 환율, 기업 분석 등 금융 관련 질문을 해주시면 답변 도와 드릴게요 😄"
NOT_FINANCE_RESPONSE ==
    <<51200, 45716, 32, 44221, 51228, 44, 32, 44552, 50997, 44288, 47144, 32, 51221, 48372,
       47484, 32, 53685, 54644, 32, 51204, 47928, 51201, 51004, 47196, 32, 49324, 50857, 51088,
       51032, 32, 50836, 52397, 51012, 32, 46020, 50752, 46300, 47532, 45716, 32, 65, 73,
       51077, 45768, 45796, 33, 10, 51452, 49885, 44, 32, 54872, 50984, 44, 32, 44592, 50629,
       32, 48516, 49437, 32, 46321, 32, 44552, 50997, 32, 44288, 47144, 32, 51656, 47928,
       51012, 32, 54644, 51452, 49884, 47732, 32, 45813, 48320, 32, 46020, 50752, 32, 46300,
       47540, 44172, 50836, 32, 128516>>

\* workflow.py:131: "적합한 에이전트를 찾을 수 없습니다. 그래프를 종료합니다."
NO_AGENT_ANSWER ==
    <<51201, 54633, 54620, 32, 50640, 51060, 51204, 53944, 47484, 32, 52286, 51012, 32, 49688,
       32, 50630, 49845, 45768, 45796, 46, 32, 44536, 47000, 54532, 47484, 32, 51333, 47308,
       54633, 45768, 45796, 46>>

\* workflow.py:182: "분석 데이터(analysis_data)를 찾을 수 없습니다."
NO_ANALYSIS_DATA_ANSWER ==
    <<48516, 49437, 32, 45936, 51060, 53552, 40, 97, 110, 97, 108, 121, 115, 105, 115, 95,
       100, 97, 116, 97, 41, 47484, 32, 52286, 51012, 32, 49688, 32, 50630, 49845, 45768,
       45796, 46>>

\* workflow.py:188 (default of .get): "보고서를 생성하지 못했습니다."
REPORT_DEFAULT_ANSWER ==
    <<48372, 44256, 49436, 47484, 32, 49373, 49457, 54616, 51648, 32, 47803, 54664, 49845,
       45768, 45796, 46>>

\* workflow.py:216 (default of .get): "질문을 좀 더 구체적으로 말씀해 주시겠어요? "
DETAIL_DEFAULT_ANSWER ==
    <<51656, 47928, 51012, 32, 51328, 32, 45908, 32, 44396, 52404, 51201, 51004, 47196, 32,
       47568, 50432, 54644, 32, 51452, 49884, 44192, 50612, 50836, 63, 32>>

\* request_analyst.py:115: "질문을 좀 더 구체적으로 말씀해 주시겠어요? 어떤 정보를 원하시나요?"
USER_QUESTION_TEXT ==
    <<51656, 47928, 51012, 32, 51328, 32, 45908, 32, 44396, 52404, 51201, 51004, 47196, 32,
       47568, 50432, 54644, 32, 51452, 49884, 44192, 50612, 50836, 63, 32, 50612, 46500, 32,
       51221, 48372, 47484, 32, 50896, 54616, 49884, 45208, 50836, 63>>

\* workflow.py:221: "질문을 다시 정제했습니다. 재시도합니다."
RETRY_ANSWER ==
    <<51656, 47928, 51012, 32, 45796, 49884, 32, 51221, 51228, 54664, 49845, 45768, 45796, 46,
       32, 51116, 49884, 46020, 54633, 45768, 45796, 46>>

\* workflow.py:256: "3회 재시도에도 품질 기준을 충족하지 못했습니다. 답변을 종료합니다."
EXHAUSTED_ANSWER ==
    <<51, 54924, 32, 51116, 49884, 46020, 50640, 46020, 32, 54408, 51656, 32, 44592, 51456,
       51012, 32, 52649, 51313, 54616, 51648, 32, 47803, 54664, 49845, 45768, 45796, 46, 32,
       45813, 48320, 51012, 32, 51333, 47308, 54633, 45768, 45796, 46>>

\* quality_evaluator.py:85  ['error', 'failed', 'could not', 'unable to', '오류', '실패', '찾을 수 없']
error_keywords ==
    << <<101, 114, 114, 111, 114>>,
       <<102, 97, 105, 108, 101, 100>>,
       <<99, 111, 117, 108, 100, 32, 110, 111, 116>>,
       <<117, 110, 97, 98, 108, 101, 32, 116, 111>>,
       <<50724, 47448>>,
       <<49892, 54056>>,
       <<52286, 51012, 32, 49688, 32, 50630>> >>

----------------------------------------------------------------------------
(* Further literals of the source, and the sample texts the capabilities   *)
(* return in this model.                                                   *)

\* report_generator.py:143: "❌ 분석 데이터가 없습니다."
NO_DATA_REPORT ==
    <<10060, 32, 48516, 49437, 32, 45936, 51060, 53552, 44032, 32, 50630, 49845, 45768, 45796,
       46>>

\* report_generator.py:222 (default of .get): "보고서 생성에 실패했습니다."
AGENT_OUTPUT_DEFAULT ==
    <<48372, 44256, 49436, 32, 49373, 49457, 50640, 32, 49892, 54056, 54664, 49845, 45768,
       45796, 46>>

\* report_generator.py:276-278: "# Report Generation Error\n\nAn error occurred: "
ERROR_REPORT_HEAD ==
    <<35, 32, 82, 101, 112, 111, 114, 116, 32, 71, 101, 110, 101, 114, 97, 116, 105, 111, 110,
       32, 69, 114, 114, 111, 114, 10, 10, 65, 110, 32, 101, 114, 114, 111, 114, 32, 111, 99,
       99, 117, 114, 114, 101, 100, 58, 32>>

\* report_generator.py:279-281: "\n\n## Analysis Data\n```json\n"
ERROR_REPORT_MID ==
    <<10, 10, 35, 35, 32, 65, 110, 97, 108, 121, 115, 105, 115, 32, 68, 97, 116, 97, 10, 96,
       96, 96, 106, 115, 111, 110, 10>>

\* report_generator.py:283-285: "\n```\n\n⚠️ Supervisor에게 재시도를 요청하거나 데이터를 확인해주세요."
ERROR_REPORT_TAIL ==
    <<10, 96, 96, 96, 10, 10, 9888, 65039, 32, 83, 117, 112, 101, 114, 118, 105, 115, 111,
       114, 50640, 44172, 32, 51116, 49884, 46020, 47484, 32, 50836, 52397, 54616, 44144,
       45208, 32, 45936, 51060, 53552, 47484, 32, 54869, 51064, 54644, 51452, 49464, 50836, 46>>

\* report_generator.py:396: "❌ 지원하지 않는 분석 타입입니다: "
UNSUPPORTED_TYPE_HEAD ==
    <<10060, 32, 51648, 50896, 54616, 51648, 32, 50506, 45716, 32, 48516, 49437, 32, 53440,
       51077, 51077, 45768, 45796, 58, 32>>

\* report_generator.py:408-410: "# 보고서 생성 오류\n\n보고서 생성 중 오류가 발생했습니다: "
DIRECT_ERROR_HEAD ==
    <<35, 32, 48372, 44256, 49436, 32, 49373, 49457, 32, 50724, 47448, 10, 10, 48372, 44256,
       49436, 32, 49373, 49457, 32, 51473, 32, 50724, 47448, 44032, 32, 48156, 49373, 54664,
       49845, 45768, 45796, 58, 32>>

\* report_generator.py:411-413: "\n\n## 분석 데이터\n```json\n"
DIRECT_ERROR_MID ==
    <<10, 10, 35, 35, 32, 48516, 49437, 32, 45936, 51060, 53552, 10, 96, 96, 96, 106, 115,
       111, 110, 10>>

\* report_generator.py:415-418: "\n```\n\n⚠️ 다시 시도해주세요.\n"
DIRECT_ERROR_TAIL ==
    <<10, 96, 96, 96, 10, 10, 9888, 65039, 32, 45796, 49884, 32, 49884, 46020, 54644, 51452,
       49464, 50836, 46, 10>>

\* the analysis_type tag: "single"
TYPE_SINGLE ==
    <<115, 105, 110, 103, 108, 101>>

\* the analysis_type tag: "comparison"
TYPE_COMPARISON ==
    <<99, 111, 109, 112, 97, 114, 105, 115, 111, 110>>

\* the analysis_type tag: "rag"
TYPE_RAG ==
    <<114, 97, 103>>

\* the analysis_type tag: "error"
TYPE_ERROR ==
    <<101, 114, 114, 111, 114>>

\* json.dumps(..., indent=2) of the dict of workflow.py:168-172: "{\n  "analysis_type": "rag",\n  "query": ""
RAG_JSON_HEAD ==
    <<123, 10, 32, 32, 34, 97, 110, 97, 108, 121, 115, 105, 115, 95, 116, 121, 112, 101, 34,
       58, 32, 34, 114, 97, 103, 34, 44, 10, 32, 32, 34, 113, 117, 101, 114, 121, 34, 58, 32,
       34>>

\* "",\n  "documents": ["
RAG_JSON_DOCS ==
    <<34, 44, 10, 32, 32, 34, 100, 111, 99, 117, 109, 101, 110, 116, 115, 34, 58, 32, 91>>

\* "\n    ""
RAG_JSON_DOC_OPEN ==
    <<10, 32, 32, 32, 32, 34>>

\* """
RAG_JSON_DOC_CLOSE ==
    <<34>>

\* ","
RAG_JSON_DOC_SEP ==
    <<44>>

\* after a non-empty documents list: "\n  ]\n}"
RAG_JSON_DOCS_END ==
    <<10, 32, 32, 93, 10, 125>>

\* after an empty documents list: "]\n}"
RAG_JSON_EMPTY_END ==
    <<93, 10, 125>>

\* json.dumps(indent=2) of the sample single record: "{\n  "analysis_type": "single",\n  "ticker": "AAPL",\n  "company_name": "Apple Inc.",\n  "current_price": 221.4,\n  "analysis": "Solid.",\n  "metrics": {\n    "pe_ratio": 40.03\n  },\n  "period": "3mo"\n}"
SINGLE_JSON ==
    <<123, 10, 32, 32, 34, 97, 110, 97, 108, 121, 115, 105, 115, 95, 116, 121, 112, 101, 34,
       58, 32, 34, 115, 105, 110, 103, 108, 101, 34, 44, 10, 32, 32, 34, 116, 105, 99, 107,
       101, 114, 34, 58, 32, 34, 65, 65, 80, 76, 34, 44, 10, 32, 32, 34, 99, 111, 109, 112, 97,
       110, 121, 95, 110, 97, 109, 101, 34, 58, 32, 34, 65, 112, 112, 108, 101, 32, 73, 110,
       99, 46, 34, 44, 10, 32, 32, 34, 99, 117, 114, 114, 101, 110, 116, 95, 112, 114, 105, 99,
       101, 34, 58, 32, 50, 50, 49, 46, 52, 44, 10, 32, 32, 34, 97, 110, 97, 108, 121, 115,
       105, 115, 34, 58, 32, 34, 83, 111, 108, 105, 100, 46, 34, 44, 10, 32, 32, 34, 109, 101,
       116, 114, 105, 99, 115, 34, 58, 32, 123, 10, 32, 32, 32, 32, 34, 112, 101, 95, 114, 97,
       116, 105, 111, 34, 58, 32, 52, 48, 46, 48, 51, 10, 32, 32, 125, 44, 10, 32, 32, 34, 112,
       101, 114, 105, 111, 100, 34, 58, 32, 34, 51, 109, 111, 34, 10, 125>>

\* json.dumps(indent=2) of the sample error record: "{\n  "error": "boom",\n  "analysis_type": "error",\n  "ticker": "ERROR",\n  "company_name": "Error",\n  "current_price": 0,\n  "analysis": "분석 중 오류가 발생했습니다: boom",\n  "metrics": {},\n  "period": "3mo"\n}"
ERROR_JSON ==
    <<123, 10, 32, 32, 34, 101, 114, 114, 111, 114, 34, 58, 32, 34, 98, 111, 111, 109, 34, 44,
       10, 32, 32, 34, 97, 110, 97, 108, 121, 115, 105, 115, 95, 116, 121, 112, 101, 34, 58,
       32, 34, 101, 114, 114, 111, 114, 34, 44, 10, 32, 32, 34, 116, 105, 99, 107, 101, 114,
       34, 58, 32, 34, 69, 82, 82, 79, 82, 34, 44, 10, 32, 32, 34, 99, 111, 109, 112, 97, 110,
       121, 95, 110, 97, 109, 101, 34, 58, 32, 34, 69, 114, 114, 111, 114, 34, 44, 10, 32, 32,
       34, 99, 117, 114, 114, 101, 110, 116, 95, 112, 114, 105, 99, 101, 34, 58, 32, 48, 44,
       10, 32, 32, 34, 97, 110, 97, 108, 121, 115, 105, 115, 34, 58, 32, 34, 48516, 49437, 32,
       51473, 32, 50724, 47448, 44032, 32, 48156, 49373, 54664, 49845, 45768, 45796, 58, 32,
       98, 111, 111, 109, 34, 44, 10, 32, 32, 34, 109, 101, 116, 114, 105, 99, 115, 34, 58, 32,
       123, 125, 44, 10, 32, 32, 34, 112, 101, 114, 105, 111, 100, 34, 58, 32, 34, 51, 109,
       111, 34, 10, 125>>

\* json.dumps(indent=2) of the sample empty record: "{}"
EMPTY_JSON ==
    <<123, 125>>

\* str(e) of a sample exception: "boom"
BOOM ==
    <<98, 111, 111, 109>>

\* a sample generation: "## Apple Inc. (AAPL)\nPrice 221.40, P/E 40.03. Hold."
GOOD_REPORT ==
    <<35, 35, 32, 65, 112, 112, 108, 101, 32, 73, 110, 99, 46, 32, 40, 65, 65, 80, 76, 41, 10,
       80, 114, 105, 99, 101, 32, 50, 50, 49, 46, 52, 48, 44, 32, 80, 47, 69, 32, 52, 48, 46,
       48, 51, 46, 32, 72, 111, 108, 100, 46>>

\* a sample generation shorter than 10 characters: "  Hold.  "
SHORT_REPORT ==
    <<32, 32, 72, 111, 108, 100, 46, 32, 32>>

\* a sample generation holding an error keyword: "I was Unable To find the data."
APOLOGY_REPORT ==
    <<73, 32, 119, 97, 115, 32, 85, 110, 97, 98, 108, 101, 32, 84, 111, 32, 102, 105, 110,
       100, 32, 116, 104, 101, 32, 100, 97, 116, 97, 46>>

\* page_content of a sample document: "PER is price / EPS"
DOC1 ==
    <<80, 69, 82, 32, 105, 115, 32, 112, 114, 105, 99, 101, 32, 47, 32, 69, 80, 83>>

\* page_content of a sample document: "ETF"
DOC2 ==
    <<69, 84, 70>>

\* a question with a chart keyword: "a chart"
Q_CHART ==
    <<97, 32, 99, 104, 97, 114, 116>>

\* a question with a chart and a save keyword: "Chart, MD"
Q_BOTH ==
    <<67, 104, 97, 114, 116, 44, 32, 77, 68>>

\* report_generator.py:152  ['차트', '그래프', 'chart', '그려', '시각화']
chart_keywords ==
    << <<52264, 53944>>,
       <<44536, 47000, 54532>>,
       <<99, 104, 97, 114, 116>>,
       <<44536, 47140>>,
       <<49884, 44033, 54868>> >>

\* report_generator.py:153  ['저장', '파일', 'save', 'md', 'pdf', 'txt']
save_keywords ==
    << <<51200, 51109>>,
       <<54028, 51068>>,
       <<115, 97, 118, 101>>,
       <<109, 100>>,
       <<112, 100, 102>>,
       <<116, 120, 116>> >>

\* a sample judge response: "3"
J_3 ==
    <<51>>

\* a sample judge response: "5"
J_5 ==
    <<53>>

\* a sample judge response: "1"
J_1 ==
    <<49>>

\* a sample judge response: "0"
J_0 ==
    <<48>>

\* a sample judge response: "Score: 4/5"
J_PROSE ==
    <<83, 99, 111, 114, 101, 58, 32, 52, 47, 53>>

\* a sample judge response: "n/a"
J_NONE ==
    <<110, 47, 97>>

\* a sample judge response: "6 of 9, so 2"
J_69_2 ==
    <<54, 32, 111, 102, 32, 57, 44, 32, 115, 111, 32, 50>>

----------------------------------------------------------------------------
(* Configuration.                                                          *)

\* Config.QUALITY_THRESHOLD
QUALITY_THRESHOLD == 2

\* the bound of _route_from_quality_evaluator: `if retries < 3`
MAX_RETRIES == 3

\* Config.RETRIEVAL_THRESHOLD = 0.3, in hundredths
RETRIEVAL_THRESHOLD == 30

\* Config.DEFAULT_RETRIEVAL_TOP_K
DEFAULT_RETRIEVAL_TOP_K == 3

----------------------------------------------------------------------------
(* Python dicts: a record with the set of its keys; d.get(k, default).     *)

Get(d, k, default) == IF k \in d.keys THEN d[k] ELSE default

\* d[k] = v
Put(d, k, v) == [d EXCEPT ![k] = v, !.keys = @ \cup {k}]

----------------------------------------------------------------------------
(* QualityEvaluator.evaluate_answer                                        *)

\* the score taken from the first digit 0..9 of the response
ParseScore_any_digit(content) ==
    LET digits == {i \in 1..Len(content) : content[i] \in 48..57}
    IN  IF digits = {} THEN 0
        ELSE content[CHOOSE i \in digits : \A j \in digits : i <= j] - 48

\* re.search(r'[1-5]', content): the position of the first digit 1..5, or 0
FirstScoreDigitAt(content) ==
    IF \E i \in 1..Len(content) : content[i] \in 49..53
    THEN CHOOSE i \in 1..Len(content) :
            /\ content[i] \in 49..53
            /\ \A j \in 1..(i - 1) : content[j] \notin 49..53
    ELSE 0

\* score = int(match.group()) if match else 0
ParseScore(content) ==
    LET i == FirstScoreDigitAt(content)
    IN  IF i = 0 THEN 0 ELSE content[i] - 48

\* step 1: `not answer or len(answer.strip()) < 10`
IsEmptyAnswer(answer) ==
    answer = None \/ answer = <<>> \/ Len(Strip(answer)) < 10

\* the keyword test on the answer as it is, without lower()
HasErrorKeyword_case_sensitive(answer) ==
    \E n \in 1..Len(error_keywords) : Contains(answer, error_keywords[n])

\* step 2: any(keyword in answer.lower() for keyword in error_keywords)
HasErrorKeyword(answer) ==
    \E answer_lower \in {Lower(answer)} :
       \E n \in 1..Len(error_keywords) :
          Contains(answer_lower, error_keywords[n])

\* step 3 passing only scores above the threshold
JudgedResult_strict(judge, threshold) ==
    IF judge.raises
    THEN [status |-> "fail", score |-> 0, failure_reason |-> "error"]
    ELSE IF ParseScore(judge.content) > threshold
    THEN [status |-> "pass", score |-> ParseScore(judge.content),
          failure_reason |-> "None"]
    ELSE [status |-> "fail", score |-> ParseScore(judge.content),
          failure_reason |-> "incorrect"]

\* step 3 without its except clause taking effect: a raise counts as a pass
JudgedResult_raise_passes(judge, threshold) ==
    IF judge.raises
    THEN [status |-> "pass", score |-> threshold, failure_reason |-> "None"]
    ELSE IF ParseScore(judge.content) >= threshold
    THEN [status |-> "pass", score |-> ParseScore(judge.content),
          failure_reason |-> "None"]
    ELSE [status |-> "fail", score |-> ParseScore(judge.content),
          failure_reason |-> "incorrect"]

\* step 3: the judge is invoked; judge.raises models an exception raised by
\* evaluation_chain.invoke or by re.search on its content
JudgedResult(judge, threshold) ==
    IF judge.raises
    THEN [status |-> "fail", score |-> 0, failure_reason |-> "error"]
    ELSE LET score == ParseScore(judge.content)
         IN  IF score >= threshold
             THEN [status |-> "pass", score |-> score, failure_reason |-> "None"]
             ELSE [status |-> "fail", score |-> score,
                   failure_reason |-> "incorrect"]

\* evaluate_answer with the keyword check moved before the empty check
evaluate_answer_keywords_first(question, answer, judge, threshold) ==
    IF answer # None /\ HasErrorKeyword(answer)
    THEN [result |-> [status |-> "fail", score |-> 0, failure_reason |-> "error"],
          judged |-> FALSE]
    ELSE IF IsEmptyAnswer(answer)
    THEN [result |-> [status |-> "fail", score |-> 0, failure_reason |-> "empty"],
          judged |-> FALSE]
    ELSE [result |-> JudgedResult(judge, threshold), judged |-> TRUE]

\* evaluate_answer without its keyword check
evaluate_answer_no_keyword_check(question, answer, judge, threshold) ==
    IF IsEmptyAnswer(answer)
    THEN [result |-> [status |-> "fail", score |-> 0, failure_reason |-> "empty"],
          judged |-> FALSE]
    ELSE [result |-> JudgedResult(judge, threshold), judged |-> TRUE]

\* evaluate_answer(question, answer): the returned dict, and whether the
\* judge chain was invoked on the way
evaluate_answer(question, answer, judge, threshold) ==
    IF IsEmptyAnswer(answer)
    THEN [result |-> [status |-> "fail", score |-> 0, failure_reason |-> "empty"],
          judged |-> FALSE]
    ELSE IF HasErrorKeyword(answer)
    THEN [result |-> [status |-> "fail", score |-> 0, failure_reason |-> "error"],
          judged |-> FALSE]
    ELSE [result |-> JudgedResult(judge, threshold), judged |-> TRUE]

----------------------------------------------------------------------------
(* request_analyst.py                                                       *)

\* request_analysis(state, llm): cls is the label of the structured output
request_analysis(st, cls) ==
    IF cls = "not_finance"
    THEN [keys |-> {"generate", "label"},
          generate |-> NOT_FINANCE_RESPONSE, label |-> "not_finance"]
    ELSE [keys |-> {"label"}, label |-> "finance"]

\* rewrite_query testing the length of the query as it is, not stripped
rewrite_query_raw_length(original_query, failure_reason) ==
    [keys |-> {"rewritten_query", "needs_user_input", "user_question"},
     rewritten_query |-> original_query,
     needs_user_input |-> (Len(original_query) < 5),
     user_question |->
        IF Len(original_query) < 5 THEN USER_QUESTION_TEXT ELSE None]

\* rewrite_query(original_query, failure_reason, llm)
rewrite_query(original_query, failure_reason) ==
    IF Len(Strip(original_query)) < 5
    THEN [keys |-> {"rewritten_query", "needs_user_input", "user_question"},
          rewritten_query |-> original_query,
          needs_user_input |-> TRUE,
          user_question |-> USER_QUESTION_TEXT]
    ELSE [keys |-> {"rewritten_query", "needs_user_input", "user_question"},
          rewritten_query |-> original_query,
          needs_user_input |-> FALSE,
          user_question |-> None]

----------------------------------------------------------------------------
(* Retriever.retrieve                                                      *)

\* None where an optional int or float argument is expected
NoArg == -1

\* VectorStore.retrieve_with_scores(query, k): the k best entries of the
\* store's ranking of the query
retrieve_with_scores(ranking, k) ==
    LET top_k == IF k # NoArg THEN k ELSE 3
    IN  SubSeq(ranking, 1, IF top_k < Len(ranking) THEN top_k ELSE Len(ranking))

\* the filter keeping only scores above the threshold
KeepsScore_strict(score, min_threshold) == score > min_threshold

\* the filter of the list comprehension: `if score >= min_threshold`
KeepsScore(score, min_threshold) == score >= min_threshold

\* Retriever.retrieve(query, k, threshold) of a Retriever() built with the
\* defaults of Config; ranking is the store's ranking of the query
Retriever_retrieve(ranking, k, threshold) ==
    LET top_k == IF k # NoArg THEN k ELSE DEFAULT_RETRIEVAL_TOP_K
        min_threshold == IF threshold # NoArg THEN threshold
                         ELSE RETRIEVAL_THRESHOLD
        candidates == retrieve_with_scores(ranking, top_k)
    IN  SelectSeq(candidates, LAMBDA c : KeepsScore(c.score, min_threshold))

\* self.retriever.retrieve(question)
retrieve(candidates) == Retriever_retrieve(candidates, NoArg, NoArg)

----------------------------------------------------------------------------
(* ReportGenerator.generate_report                                         *)

\* any(keyword in request_lower for keyword in keywords)
AnyKeyword(request, keywords) ==
    \E request_lower \in {Lower(request)} :
       \E n \in 1..Len(keywords) : Contains(request_lower, keywords[n])

wants_charts(user_request) == AnyKeyword(user_request, chart_keywords)
wants_save(user_request) == AnyKeyword(user_request, save_keywords)

\* every tool handed to the temporary agent whenever one keyword set matches
available_tools_unfiltered(user_request) ==
    IF wants_charts(user_request) \/ wants_save(user_request)
    THEN <<"draw_stock_chart", "draw_valuation_radar", "save_report_to_file">>
    ELSE <<>>

\* the tools handed to the temporary agent
available_tools(user_request) ==
    (IF wants_charts(user_request)
     THEN <<"draw_stock_chart", "draw_valuation_radar">> ELSE <<>>)
    \o (IF wants_save(user_request) THEN <<"save_report_to_file">> ELSE <<>>)

\* the text of an analysis_type tag, for the f-strings that embed it
TypeText(t) ==
    CASE t = "single" -> TYPE_SINGLE
      [] t = "comparison" -> TYPE_COMPARISON
      [] t = "rag" -> TYPE_RAG
      [] t = "error" -> TYPE_ERROR

\* _generate_report_directly(analysis_data); gen is what self.llm.invoke does
generate_report_directly(analysis_data, gen) ==
    LET analysis_type == Get(analysis_data, "analysis_type", "single")
    IN  IF analysis_type \notin {"single", "comparison"}
        THEN UNSUPPORTED_TYPE_HEAD \o TypeText(analysis_type)
        ELSE IF gen.raises
        THEN DIRECT_ERROR_HEAD \o gen.text \o DIRECT_ERROR_MID
             \o analysis_data.json \o DIRECT_ERROR_TAIL
        ELSE Strip(gen.text)

\* the dict generate_report returns
ReportDict(report, status, charts, saved_path) ==
    [keys |-> {"report", "status", "charts", "saved_path"},
     report |-> report, status |-> status,
     charts |-> charts, saved_path |-> saved_path, error |-> None]

\* the except branch of generate_report: the dict also holds "error"
error_report(msg, analysis_data) ==
    [ReportDict(ERROR_REPORT_HEAD \o msg \o ERROR_REPORT_MID
                    \o analysis_data.json \o ERROR_REPORT_TAIL,
                "error", <<>>, None)
       EXCEPT !.keys = @ \cup {"error"}, !.error = msg]

\* charts: the chart paths of the intermediate steps, without repetition
RECURSIVE ChartPaths(_, _)
ChartPaths(steps, acc) ==
    IF steps = <<>> THEN acc
    ELSE LET s == Head(steps)
             hit == /\ s.tool \in {"draw_stock_chart", "draw_valuation_radar"}
                    /\ s.path # None
                    /\ \A i \in 1..Len(acc) : acc[i] # s.path
         IN  ChartPaths(Tail(steps), IF hit THEN Append(acc, s.path) ELSE acc)

\* saved_path: the path of the last save step whose observation holds one
RECURSIVE SavedPath(_, _)
SavedPath(steps, acc) ==
    IF steps = <<>> THEN acc
    ELSE LET s == Head(steps)
         IN  SavedPath(Tail(steps),
                       IF s.tool = "save_report_to_file" /\ s.path # None
                       THEN s.path ELSE acc)

\* generate_report(user_request, analysis_data).  gen is the outcome of the
\* generation capability (direct path); agent is the outcome of the
\* temporary AgentExecutor (tool path).
generate_report(user_request, analysis_data, gen, agent) ==
    IF analysis_data.keys = {}
    THEN ReportDict(NO_DATA_REPORT, "error", <<>>, None)
    ELSE IF available_tools(user_request) = <<>>
    THEN ReportDict(generate_report_directly(analysis_data, gen),
                    "success", <<>>, None)
    ELSE IF agent.raises
    THEN error_report(agent.text, analysis_data)
    ELSE ReportDict(IF agent.has_output THEN agent.text
                    ELSE AGENT_OUTPUT_DEFAULT,
                    "success",
                    ChartPaths(agent.steps, <<>>),
                    SavedPath(agent.steps, None))

----------------------------------------------------------------------------
(* The outcomes of the external capabilities.                              *)

\* FinanceGate.label as the classifier LLM fills it, or the chain raising
ClassifierOutcomes == {"finance", "not_finance", "unknown", "RAISE"}

\* AgentType.agent as the router LLM fills it, or the chain raising
SupervisorOutcomes ==
    {"financial_analyst", "vector_search_agent", "none", "unknown", "RAISE"}

\* what FinancialAnalyst.analyze returns: a parsed record, the UNKNOWN
\* wrapper, the ERROR record, or an empty JSON object
AnalysisDict(type, ticker, json) ==
    [keys |-> {"analysis_type", "ticker", "company_name", "current_price",
               "analysis", "metrics", "period"},
     analysis_type |-> type, ticker |-> ticker, json |-> json]

EmptyDict ==
    [keys |-> {}, analysis_type |-> "", ticker |-> "", json |-> EMPTY_JSON]

AnalysisOutcomes ==
    {AnalysisDict("single", "AAPL", SINGLE_JSON),
     AnalysisDict("error", "ERROR", ERROR_JSON),
     EmptyDict}

\* what VectorStore.retrieve_with_scores returns (scores in hundredths, in
\* the store's descending order), or the search raising
CandidateLists ==
    {<<>>,
     <<[doc |-> DOC1, score |-> 90], [doc |-> DOC2, score |-> 30],
       [doc |-> DOC2, score |-> 29]>>,
     <<[doc |-> DOC2, score |-> 20]>>}

StoreOutcomes ==
    {[raises |-> FALSE, candidates |-> c] : c \in CandidateLists}
    \cup {[raises |-> TRUE, candidates |-> <<>>]}

\* what self.llm.invoke(prompt) does in _generate_report_directly
GenOutcomes ==
    {[raises |-> FALSE, text |-> GOOD_REPORT],
     [raises |-> FALSE, text |-> SHORT_REPORT],
     [raises |-> FALSE, text |-> APOLOGY_REPORT],
     [raises |-> TRUE, text |-> BOOM]}

\* "charts/a.png", "reports/a.md"
PATH_CHART == <<99, 104, 97, 114, 116, 115, 47, 97, 46, 112, 110, 103>>
PATH_REPORT == <<114, 101, 112, 111, 114, 116, 115, 47, 97, 46, 109, 100>>

\* one intermediate step per tool, with the path its observation holds
StepOf(tool) ==
    [tool |-> tool,
     path |-> IF tool = "save_report_to_file" THEN PATH_REPORT ELSE PATH_CHART]

\* what temp_executor.invoke does with the given tools (it is not invoked
\* when there are none)
AgentOutcomes(tools) ==
    IF tools = <<>>
    THEN {[raises |-> FALSE, text |-> <<>>, has_output |-> FALSE,
           steps |-> <<>>]}
    ELSE
    {[raises |-> TRUE, text |-> BOOM, has_output |-> FALSE, steps |-> <<>>],
     [raises |-> FALSE, text |-> GOOD_REPORT, has_output |-> TRUE,
      steps |-> <<>>],
     [raises |-> FALSE, text |-> GOOD_REPORT, has_output |-> TRUE,
      steps |-> [i \in 1..Len(tools) |-> StepOf(tools[i])]],
     [raises |-> FALSE, text |-> <<>>, has_output |-> FALSE,
      steps |-> <<[tool |-> tools[1], path |-> None]>>]}

\* what evaluation_chain.invoke returns (response.content), or raises
JudgeResponses == {J_3, J_5, J_1, J_0, J_PROSE, J_NONE, J_69_2}

JudgeOutcomes ==
    {[raises |-> FALSE, content |-> c] : c \in JudgeResponses}
    \cup {[raises |-> TRUE, content |-> <<>>]}

\* the judge outcomes the workflow runs draw from
WorkflowJudgeOutcomes ==
    {[raises |-> FALSE, content |-> c] : c \in {J_3, J_1}}
    \cup {[raises |-> TRUE, content |-> <<>>]}

----------------------------------------------------------------------------
(* The nodes of the graph.  A node operator takes the state dict and the   *)
(* outcomes of the capabilities it calls, and gives the dict it returns,   *)
(* whether it raised instead, and the capabilities it invoked.             *)

NodeResult(st, raised, invoked) ==
    [state |-> st, raised |-> raised, invoked |-> invoked]

\* request_analyst_node testing the question without stripping it
request_analyst_node_no_strip(st, cls) ==
    LET question == Get(st, "question", <<>>)
    IN  IF question = <<>>
        THEN <<NodeResult(Put(Put(st, "answer", EMPTY_QUESTION_ANSWER),
                              "route", "end"),
                          FALSE, <<>>),
               "unset">>
        ELSE IF cls = "RAISE"
        THEN <<NodeResult(st, TRUE, <<"classifier">>), "unset">>
        ELSE LET analysis_result == request_analysis(st, cls)
                 lab == Get(analysis_result, "label", "None")
             IN  IF lab = "finance"
                 THEN <<NodeResult(Put(st, "route", "supervisor"),
                                   FALSE, <<"classifier">>),
                        lab>>
                 ELSE <<NodeResult(
                            Put(Put(st, "answer",
                                    Get(analysis_result, "return_msg",
                                        NOT_FINANCE_DEFAULT_ANSWER)),
                                "route", "end"),
                            FALSE, <<"classifier">>),
                        lab>>

\* request_analyst_node(state); the second component is the local `label`
request_analyst_node(st, cls) ==
    LET question == Strip(Get(st, "question", <<>>))
    IN  IF question = <<>>
        THEN <<NodeResult(Put(Put(st, "answer", EMPTY_QUESTION_ANSWER),
                              "route", "end"),
                          FALSE, <<>>),
               "unset">>
        ELSE IF cls = "RAISE"
        THEN <<NodeResult(st, TRUE, <<"classifier">>), "unset">>
        ELSE LET analysis_result == request_analysis(st, cls)
                 lab == Get(analysis_result, "label", "None")
             IN  IF lab = "finance"
                 THEN <<NodeResult(Put(st, "route", "supervisor"),
                                   FALSE, <<"classifier">>),
                        lab>>
                 ELSE <<NodeResult(
                            Put(Put(st, "answer",
                                    Get(analysis_result, "return_msg",
                                        NOT_FINANCE_DEFAULT_ANSWER)),
                                "route", "end"),
                            FALSE, <<"classifier">>),
                        lab>>

\* supervisor_node sending every choice but vector_search_agent to the
\* financial analyst
supervisor_node_default_financial(st, sup) ==
    IF sup = "RAISE"
    THEN NodeResult(st, TRUE, <<"router">>)
    ELSE IF sup = "vector_search_agent"
    THEN NodeResult(Put(Put(st, "route", "report_generator"),
                        "request_type", "rag"),
                    FALSE, <<"router">>)
    ELSE NodeResult(Put(st, "route", "financial_analyst"), FALSE, <<"router">>)

\* supervisor_node(state); sup is the value supervisor() returns
supervisor_node(st, sup) ==
    IF sup = "RAISE"
    THEN NodeResult(st, TRUE, <<"router">>)
    ELSE IF sup = "financial_analyst"
    THEN NodeResult(Put(st, "route", "financial_analyst"), FALSE, <<"router">>)
    ELSE IF sup = "vector_search_agent"
    THEN NodeResult(Put(Put(st, "route", "report_generator"),
                        "request_type", "rag"),
                    FALSE, <<"router">>)
    ELSE NodeResult(Put(Put(st, "answer", NO_AGENT_ANSWER), "route", "end"),
                    FALSE, <<"router">>)

\* financial_analyst_node(state); ana is what analyze(question) returns
financial_analyst_node(st, ana) ==
    NodeResult(Put(Put(st, "analysis_data", ana),
                   "request_type", "financial_analyst"),
               FALSE, <<"analyze">>)

\* json.dumps(documents, indent=2) inside the dump of the rag dict
RECURSIVE DocsJson(_)
DocsJson(docs) ==
    IF docs = <<>> THEN <<>>
    ELSE RAG_JSON_DOC_OPEN \o Head(docs) \o RAG_JSON_DOC_CLOSE
         \o (IF Len(docs) > 1 THEN RAG_JSON_DOC_SEP ELSE <<>>)
         \o DocsJson(Tail(docs))

\* the rag analysis_data of report_generator_node (questions and documents
\* of this model hold no character that JSON escapes)
RagDict(question, results) ==
    LET documents == [i \in 1..Len(results) |-> results[i].doc]
    IN  [keys |-> {"analysis_type", "query", "documents"},
         analysis_type |-> "rag",
         ticker |-> "",
         json |-> RAG_JSON_HEAD \o question \o RAG_JSON_DOCS
                  \o DocsJson(documents)
                  \o (IF documents = <<>> THEN RAG_JSON_EMPTY_END
                      ELSE RAG_JSON_DOCS_END)]

\* report_generator_node(state)
report_generator_node(st, store, gen, agent) ==
    LET question == Get(st, "question", <<>>)
    IN  IF Get(st, "request_type", "rag") = "rag"
        THEN IF store.raises
             THEN NodeResult(st, TRUE, <<"retrieve">>)
             ELSE LET results == retrieve(store.candidates)
                      analysis_data == RagDict(question, results)
                      st1 == Put(Put(st, "rag_search_results", results),
                                 "analysis_data", analysis_data)
                      report == generate_report(question, analysis_data,
                                                gen, agent)
                  IN  NodeResult(Put(st1, "answer",
                                     Get(report, "report",
                                         REPORT_DEFAULT_ANSWER)),
                                 FALSE, <<"retrieve", "generate">>)
        ELSE LET analysis_data == Get(st, "analysis_data", EmptyDict)
             IN  IF analysis_data.keys = {}
                 THEN NodeResult(Put(st, "answer", NO_ANALYSIS_DATA_ANSWER),
                                 FALSE, <<>>)
                 ELSE LET report == generate_report(question, analysis_data,
                                                    gen, agent)
                      IN  NodeResult(Put(st, "answer",
                                         Get(report, "report",
                                             REPORT_DEFAULT_ANSWER)),
                                     FALSE, <<"generate">>)

\* retries not reset by a passed evaluation
NextRetries_no_reset(st, passed) ==
    IF passed THEN Get(st, "retries", 0) ELSE Get(st, "retries", 0) + 1

\* state["retries"] after an evaluation
NextRetries(st, passed) ==
    IF passed THEN 0 ELSE Get(st, "retries", 0) + 1

\* quality_evaluator_node leaving the evaluated answer in place after a
\* failed evaluation
quality_evaluator_node_keeps_answer(st, ev) ==
    LET question == Get(st, "question", <<>>)
        result == ev.result
        passed == result.status = "pass"
        st1 == Put(Put(st, "quality_detail", result), "quality_passed", passed)
        st2 == Put(st1, "retries", NextRetries(st1, passed))
        rewrite_result == rewrite_query(question, result.failure_reason)
        invoked == IF ev.judged THEN <<"judge">> ELSE <<>>
    IN  IF ~passed
        THEN IF rewrite_result.needs_user_input
             THEN NodeResult(Put(st2, "route", "end"), FALSE, invoked)
             ELSE NodeResult(
                      Put(st2, "question",
                          Get(rewrite_result, "rewritten_query", question)),
                      FALSE, invoked)
        ELSE NodeResult(st2, FALSE, invoked)

\* quality_evaluator_node(state); ev is what the call of
\* self.quality_evaluator.evaluate_answer(question, answer) gave
quality_evaluator_node(st, ev) ==
    LET question == Get(st, "question", <<>>)
        result == ev.result
        passed == result.status = "pass"
        st1 == Put(Put(st, "quality_detail", result), "quality_passed", passed)
        st2 == Put(st1, "retries", NextRetries(st1, passed))
        rewrite_result == rewrite_query(question, result.failure_reason)
        invoked == IF ev.judged THEN <<"judge">> ELSE <<>>
    IN  IF ~passed
        THEN IF rewrite_result.needs_user_input
             THEN NodeResult(
                      Put(Put(st2, "answer",
                              Get(rewrite_result, "request_for_detail_msg",
                                  DETAIL_DEFAULT_ANSWER)),
                          "route", "end"),
                      FALSE, invoked)
             ELSE NodeResult(
                      Put(Put(st2, "question",
                              Get(rewrite_result, "rewritten_query", question)),
                          "answer", RETRY_ANSWER),
                      FALSE, invoked)
        ELSE NodeResult(st2, FALSE, invoked)

----------------------------------------------------------------------------
(* Edge routing helpers.  The graph hands a routing function a dict read   *)
(* from its channels and uses only the returned label: the dict the        *)
(* function leaves behind is given as `local`.                             *)

\* the route compared with the name of the END node instead of "end"
route_from_request_analyst_END(st) ==
    [ret |-> IF Get(st, "route", "None") = "END" THEN "end" ELSE "supervisor",
     local |-> st]

route_from_request_analyst(st) ==
    [ret |-> IF Get(st, "route", "None") = "end" THEN "end" ELSE "supervisor",
     local |-> st]

route_from_supervisor(st) ==
    [ret |-> Get(st, "route", "financial_analyst"), local |-> st]

\* the routing without its test of quality_passed
route_from_quality_evaluator_ignores_pass(st) ==
    IF Get(st, "retries", 0) < MAX_RETRIES
    THEN [ret |-> "retry", local |-> st]
    ELSE [ret |-> "end", local |-> Put(st, "answer", EXHAUSTED_ANSWER)]

\* the retry test with <= in place of <
route_from_quality_evaluator_le(st) ==
    LET retries == Get(st, "retries", 0)
        quality_passed == Get(st, "quality_passed", FALSE)
    IN  IF quality_passed THEN [ret |-> "end", local |-> st]
        ELSE IF retries <= MAX_RETRIES THEN [ret |-> "retry", local |-> st]
        ELSE [ret |-> "end", local |-> Put(st, "answer", EXHAUSTED_ANSWER)]

route_from_quality_evaluator(st) ==
    LET retries == Get(st, "retries", 0)
        quality_passed == Get(st, "quality_passed", FALSE)
    IN  IF quality_passed THEN [ret |-> "end", local |-> st]
        ELSE IF retries < MAX_RETRIES THEN [ret |-> "retry", local |-> st]
        ELSE [ret |-> "end", local |-> Put(st, "answer", EXHAUSTED_ANSWER)]

----------------------------------------------------------------------------
(* The compiled graph (_build_graph) and run().                            *)

Nodes ==
    {"request_analyst", "supervisor", "financial_analyst", "report_generator",
     "quality_evaluator"}

Capabilities ==
    {"classifier", "router", "analyze", "retrieve", "generate", "judge"}

\* the graph with the edge financial_analyst -> quality_evaluator
EdgeTarget_skip_report(node, ret) ==
    CASE node = "request_analyst" ->
            (CASE ret = "end" -> "END" [] ret = "supervisor" -> "supervisor")
      [] node = "supervisor" ->
            (CASE ret = "financial_analyst" -> "financial_analyst"
               [] ret = "report_generator" -> "report_generator"
               [] ret = "end" -> "END")
      [] node = "financial_analyst" -> "quality_evaluator"
      [] node = "report_generator" -> "quality_evaluator"
      [] node = "quality_evaluator" ->
            (CASE ret = "retry" -> "request_analyst" [] ret = "end" -> "END")

\* the graph whose edges out of request_analyst lead back to request_analyst
EdgeTarget_restart(node, ret) ==
    CASE node = "request_analyst" -> "request_analyst"
      [] node = "supervisor" ->
            (CASE ret = "financial_analyst" -> "financial_analyst"
               [] ret = "report_generator" -> "report_generator"
               [] ret = "end" -> "END")
      [] node = "financial_analyst" -> "report_generator"
      [] node = "report_generator" -> "quality_evaluator"
      [] node = "quality_evaluator" ->
            (CASE ret = "retry" -> "request_analyst" [] ret = "end" -> "END")

\* the mapping of add_conditional_edges / add_edge: the node a label leads to
EdgeTarget(node, ret) ==
    CASE node = "request_analyst" ->
            (CASE ret = "end" -> "END" [] ret = "supervisor" -> "supervisor")
      [] node = "supervisor" ->
            (CASE ret = "financial_analyst" -> "financial_analyst"
               [] ret = "report_generator" -> "report_generator"
               [] ret = "end" -> "END")
      [] node = "financial_analyst" -> "report_generator"
      [] node = "report_generator" -> "quality_evaluator"
      [] node = "quality_evaluator" ->
            (CASE ret = "retry" -> "request_analyst" [] ret = "end" -> "END")

\* the routing function attached to a node ("" on an unconditional edge)
Route(node, st) ==
    CASE node = "request_analyst" -> route_from_request_analyst(st)
      [] node = "supervisor" -> route_from_supervisor(st)
      [] node = "quality_evaluator" -> route_from_quality_evaluator(st)
      [] OTHER -> [ret |-> "", local |-> st]

\* the string padding of the inputs: n spaces
Spaces(n) == [i \in 1..n |-> 32]

\* n letters 'a'
Letters(n) == [i \in 1..n |-> 97]

\* the questions passed to run(): up to MaxQLen letters, a question with
\* inner spaces, questions with chart / save keywords; each also with a
\* space before and a newline after it
QuestionCores ==
    {Letters(n) : n \in 0..MaxQLen}
    \cup {<<97, 32, 32, 32, 97>>, Q_CHART, Q_BOTH}

Questions == QuestionCores \cup {<<32>> \o c \o <<10>> : c \in QuestionCores}

\* initial_state = {"question": question}; the fields of absent keys hold
\* placeholders that Get never reads
NoDetail == [status |-> "", score |-> 0, failure_reason |-> ""]

InitialState(question) ==
    [keys |-> {"question"},
     question |-> question,
     answer |-> <<>>,
     route |-> "",
     request_type |-> "",
     rag_search_results |-> <<>>,
     analysis_data |-> EmptyDict,
     quality_passed |-> FALSE,
     quality_detail |-> NoDetail,
     retries |-> 0]

\* counts[k] + 1 for every k of the sequence ks; the counters of node
\* executions and capability calls stop counting at MaxCount
Bump(counts, ks) ==
    [k \in DOMAIN counts |->
        LET n == counts[k] + Cardinality({i \in 1..Len(ks) : ks[i] = k})
        IN  IF n > MaxCount THEN MaxCount ELSE n]

\* one step of graph.invoke: the node ran with result res; its writes reach
\* the channels, then its routing function picks the next node.  A raise
\* aborts the run.
Advance(node, res) ==
    /\ prev' = node
    /\ executed' = Bump(executed, <<node>>)
    /\ calls' = Bump(calls, res.invoked)
    /\ IF res.raised
       THEN /\ pc' = "RAISED"
            /\ state' = state
       ELSE /\ pc' = EdgeTarget(node, Route(node, res.state).ret)
            /\ state' = res.state
    /\ UNCHANGED <<call_args, call_result>>

\* no function was called on its own
NoCall == [kind |-> "none"]

Init ==
    /\ pc = "request_analyst"
    /\ prev = "START"
    /\ \E q \in Questions : state = InitialState(q)
    /\ executed = [n \in Nodes |-> 0]
    /\ calls = [c \in Capabilities |-> 0]
    /\ label = "unset"
    /\ agent_choice = "unset"
    /\ call_args = NoCall
    /\ call_result = NoCall

\* Each action draws the outcomes of the capabilities its node calls and
\* takes one of the results the node can then return.

RequestAnalyst ==
    /\ pc = "request_analyst"
    /\ \E out \in {request_analyst_node(state, cls) : cls \in ClassifierOutcomes} :
          /\ Advance("request_analyst", out[1])
          /\ label' = out[2]
    /\ UNCHANGED agent_choice

Supervisor ==
    /\ pc = "supervisor"
    /\ \E sup \in SupervisorOutcomes :
          \E res \in {supervisor_node(state, sup)} :
             /\ Advance("supervisor", res)
             /\ agent_choice' = sup
    /\ UNCHANGED label

FinancialAnalyst ==
    /\ pc = "financial_analyst"
    /\ \E res \in {financial_analyst_node(state, ana) : ana \in AnalysisOutcomes} :
          Advance("financial_analyst", res)
    /\ UNCHANGED <<label, agent_choice>>

\* the outcomes of the capabilities report_generator_node can reach from st:
\* the vector store in rag mode, the generation otherwise (the rag dict has
\* no report template), the temporary agent when the request names a tool
StoreChoices(st) ==
    IF Get(st, "request_type", "rag") = "rag" THEN StoreOutcomes
    ELSE {[raises |-> FALSE, candidates |-> <<>>]}

GenChoices(st) ==
    IF Get(st, "request_type", "rag") # "rag"
       /\ available_tools(Get(st, "question", <<>>)) = <<>>
    THEN GenOutcomes
    ELSE {[raises |-> FALSE, text |-> <<>>]}

ReportGeneratorNode ==
    /\ pc = "report_generator"
    /\ \E res \in {report_generator_node(state, store, gen, agent) :
                      store \in StoreChoices(state),
                      gen \in GenChoices(state),
                      agent \in AgentOutcomes(
                                   available_tools(Get(state, "question", <<>>)))} :
          Advance("report_generator", res)
    /\ UNCHANGED <<label, agent_choice>>

QualityEvaluatorNode ==
    /\ pc = "quality_evaluator"
    /\ \E ev \in {evaluate_answer(Get(state, "question", <<>>),
                                     Get(state, "answer", <<>>),
                                     judge, QUALITY_THRESHOLD) :
                     judge \in WorkflowJudgeOutcomes} :
          \E res \in {quality_evaluator_node(state, ev)} :
             Advance("quality_evaluator", res)
    /\ UNCHANGED <<label, agent_choice>>

Next ==
    \/ RequestAnalyst
    \/ Supervisor
    \/ FinancialAnalyst
    \/ ReportGeneratorNode
    \/ QualityEvaluatorNode

Spec == Init /\ [][Next]_vars

\* graph.invoke runs the nodes one after another until END: a node that is
\* due runs
FairSpec == Spec /\ WF_vars(Next)

----------------------------------------------------------------------------
(* evaluate_answer on its own: called once on an answer drawn from the     *)
(* concatenations of a few pieces, padded with whitespace, or None.        *)

\* "error", "Fail", "ed", "오류", "ok", "abcde", " "
AnswerPieces ==
    {<<101, 114, 114, 111, 114>>, <<70, 97, 105, 108>>, <<101, 100>>,
     <<50724, 47448>>, <<111, 107>>, <<97, 98, 99, 100, 101>>, <<32>>}

RECURSIVE PieceConcats(_)
PieceConcats(n) ==
    IF n = 0 THEN {<<>>}
    ELSE LET shorter == PieceConcats(n - 1)
         IN  shorter \cup {s \o p : s \in shorter, p \in AnswerPieces}

\* padding of l characters: spaces, or a newline first
Pads(l) == {Spaces(l)} \cup (IF l > 0 THEN {<<10>> \o Spaces(l - 1)} ELSE {})

\* answers of ten characters or more that hold one keyword each, in the
\* letter case shown:
\*   "오류가 발생했습니다"
\*   "An error occurred"
\*   "The lookup FAILED twice"
\*   "We Could Not finish"
\*   "I am UNABLE TO answer"
\*   "요청이 실패 했습니다 다시"
\*   "자료를 찾을 수 없 습니다"
\*   "An ERROR occurred"
KeywordAnswers ==
    {<<50724, 47448, 44032, 32, 48156, 49373, 54664, 49845, 45768, 45796>>,
     <<65, 110, 32, 101, 114, 114, 111, 114, 32, 111, 99, 99, 117, 114, 114, 101, 100>>,
     <<84, 104, 101, 32, 108, 111, 111, 107, 117, 112, 32, 70, 65, 73, 76, 69, 68, 32, 116,
       119, 105, 99, 101>>,
     <<87, 101, 32, 67, 111, 117, 108, 100, 32, 78, 111, 116, 32, 102, 105, 110, 105, 115,
       104>>,
     <<73, 32, 97, 109, 32, 85, 78, 65, 66, 76, 69, 32, 84, 79, 32, 97, 110, 115, 119, 101,
       114>>,
     <<50836, 52397, 51060, 32, 49892, 54056, 32, 54664, 49845, 45768, 45796, 32, 45796,
       49884>>,
     <<51088, 47308, 47484, 32, 52286, 51012, 32, 49688, 32, 50630, 32, 49845, 45768,
       45796>>,
     <<65, 110, 32, 69, 82, 82, 79, 82, 32, 111, 99, 99, 117, 114, 114, 101, 100>>}

AnswerInputs ==
    {None} \cup
    {lp \o c \o rp :
        lp \in UNION {Pads(l) : l \in 0..MaxPad},
        rp \in UNION {Pads(r) : r \in 0..MaxPad},
        c \in PieceConcats(MaxPieces)}
    \cup KeywordAnswers

EvalQuestions == {<<>>, Letters(5)}

InitEval ==
    /\ pc = "evaluate_answer"
    /\ prev = "START"
    /\ \E q \in EvalQuestions, a \in AnswerInputs :
          state = Put(InitialState(q), "answer", a)
    /\ executed = [n \in Nodes |-> 0]
    /\ calls = [c \in Capabilities |-> 0]
    /\ label = "unset"
    /\ agent_choice = "unset"
    /\ call_args = NoCall
    /\ call_result = NoCall

\* result = evaluator.evaluate_answer(question, answer)
EvaluateAnswerCall ==
    /\ pc = "evaluate_answer"
    /\ \E judge \in JudgeOutcomes :
          LET ev == evaluate_answer(state.question, state.answer, judge,
                                    QUALITY_THRESHOLD)
          IN  /\ state' = Put(state, "quality_detail", ev.result)
              /\ calls' = Bump(calls, IF ev.judged THEN <<"judge">> ELSE <<>>)
              /\ call_args' = judge
              /\ call_result' = ev.result
    /\ pc' = "evaluated"
    /\ UNCHANGED <<prev, executed, label, agent_choice>>

EvalSpec == InitEval /\ [][EvaluateAnswerCall]_vars

----------------------------------------------------------------------------
(* rewrite_query on its own, next to the workflow runs that call it from   *)
(* quality_evaluator_node.                                                 *)

\* the failure_reason values evaluate_answer produces, and None
FailureReasons == {"empty", "error", "incorrect", "None"}

InitRewrite ==
    /\ pc = "rewrite_query"
    /\ prev = "START"
    /\ \E q \in Questions, r \in FailureReasons :
          /\ state = InitialState(q)
          /\ call_args = [original_query |-> q, failure_reason |-> r]
    /\ executed = [n \in Nodes |-> 0]
    /\ calls = [c \in Capabilities |-> 0]
    /\ label = "unset"
    /\ agent_choice = "unset"
    /\ call_result = NoCall

\* rewrite_result = rewrite_query(original_query, failure_reason, llm)
RewriteQueryCall ==
    /\ pc = "rewrite_query"
    /\ call_result' = rewrite_query(call_args.original_query,
                                    call_args.failure_reason)
    /\ pc' = "rewritten"
    /\ UNCHANGED <<prev, state, executed, calls, label, agent_choice, call_args>>

RewriteSpec == (Init \/ InitRewrite) /\ [][Next \/ RewriteQueryCall]_vars

----------------------------------------------------------------------------
(* FinancialAnalyst.analyze (src/src/agents/financial_analyst.py): the     *)
(* JSON text is cut out of the agent's raw output and parsed.              *)

\* s.find(k) as a 1-based index, 0 when k does not occur
Find(s, k) ==
    LET at == {i \in 1..(Len(s) - Len(k) + 1) : SubSeq(s, i, i + Len(k) - 1) = k}
    IN  IF at = {} THEN 0 ELSE CHOOSE i \in at : \A j \in at : i <= j

\* s.split(k)[-1]: what follows the last occurrence of k
AfterLast(s, k) ==
    LET at == {i \in 1..(Len(s) - Len(k) + 1) : SubSeq(s, i, i + Len(k) - 1) = k}
    IN  IF at = {} THEN s
        ELSE LET i == CHOOSE i \in at : \A j \in at : j <= i
             IN  SubSeq(s, i + Len(k), Len(s))

\* the first index from i on that holds no whitespace (Len(s) + 1 if none)
SkipSpaces(s, i) ==
    LET rest == {j \in i..Len(s) : s[j] \notin Whitespace}
    IN  IF rest = {} THEN Len(s) + 1 ELSE CHOOSE j \in rest : \A m \in rest : j <= m

\* "```json"
FENCE_JSON ==
    <<96, 96, 96, 106, 115, 111, 110>>

\* "```"
FENCE ==
    <<96, 96, 96>>

\* "Final Answer:"
FINAL_ANSWER ==
    <<70, 105, 110, 97, 108, 32, 65, 110, 115, 119, 101, 114, 58>>

\* "{" and "}"
LBRACE == 123
RBRACE == 125

\* s.startswith(k, i - 1): k stands in s from the index i on
StartsAt(s, k, i) ==
    i + Len(k) - 1 <= Len(s) /\ SubSeq(s, i, i + Len(k) - 1) = k

\* the group of r'```json\s*(\{.*?\})\s*```' when the match starts at i
FenceGroupAt(s, i) ==
    IF ~StartsAt(s, FENCE_JSON, i) THEN None
    ELSE LET open == SkipSpaces(s, i + Len(FENCE_JSON))
             ends == {e \in (open + 1)..Len(s) :
                        /\ s[e] = RBRACE
                        /\ StartsAt(s, FENCE, SkipSpaces(s, e + 1))}
         IN  IF open > Len(s) \/ s[open] # LBRACE \/ ends = {} THEN None
             ELSE SubSeq(s, open, CHOOSE e \in ends : \A m \in ends : e <= m)

\* re.search(r'```json\s*(\{.*?\})\s*```', output, re.DOTALL): group(1) of
\* the leftmost match, None without a match
FenceGroup(s) ==
    LET starts == {i \in 1..Len(s) : FenceGroupAt(s, i) # None}
    IN  IF starts = {} THEN None
        ELSE FenceGroupAt(s, CHOOSE i \in starts : \A j \in starts : i <= j)

\* brace_count after the loop over s[start:] has read the index i
BraceCount(s, start, i) ==
    Cardinality({j \in start..i : s[j] = LBRACE})
        - Cardinality({j \in start..i : s[j] = RBRACE})

\* the loop over s[start:]: the index of the first "}" at which brace_count
\* is back to 0, or 0 when it never is
BraceEnd(s, start) ==
    LET ends == {i \in start..Len(s) :
                    s[i] = RBRACE /\ BraceCount(s, start, i) = 0}
    IN  IF ends = {} THEN 0 ELSE CHOOSE i \in ends : \A m \in ends : i <= m

\* s[start_idx:end_idx] of the brace matching, None when s has no "{" or
\* the first one is never closed
BraceObject(s) ==
    LET start == Find(s, <<LBRACE>>)
        end == IF start = 0 THEN 0 ELSE BraceEnd(s, start)
    IN  IF end = 0 THEN None ELSE SubSeq(s, start, end)

\* the three extraction steps: the text handed to json.loads
ExtractJson(output) ==
    IF FenceGroup(output) # None THEN FenceGroup(output)
    ELSE LET part == IF Contains(output, FINAL_ANSWER)
                     THEN Strip(AfterLast(output, FINAL_ANSWER))
                     ELSE output
         IN  IF BraceObject(part) # None THEN BraceObject(part) ELSE output

\* a Python value as far as analyze and its callers look at it: its type,
\* for a dict its keys, the type of the value under each key, and the str
\* under "analysis_type", "ticker", "analysis" and "error" (None when the
\* key is missing or holds no str)
PyDict(keys, types, analysis_type, ticker, analysis, error) ==
    [kind |-> "dict", keys |-> keys, types |-> types,
     analysis_type |-> analysis_type, ticker |-> ticker,
     analysis |-> analysis, error |-> error]

PyOther(kind) ==
    [kind |-> kind, keys |-> {}, types |-> [k \in {} |-> ""],
     analysis_type |-> None, ticker |-> None, analysis |-> None,
     error |-> None]

\* result.get("output", {}) of a result without "output"
EMPTY_DICT == PyDict({}, [k \in {} |-> ""], None, None, None, None)

\* a complete single record: '{"analysis_type": "single", "ticker": "AAPL", "company_name": "Apple Inc.", "current_price": 221.4, "analysis": "Hold.", "metrics": {"pe_ratio": 40.03}, "period": "3mo"}'
RAW_SINGLE ==
    <<123, 34, 97, 110, 97, 108, 121, 115, 105, 115, 95, 116, 121, 112, 101,
      34, 58, 32, 34, 115, 105, 110, 103, 108, 101, 34, 44, 32, 34, 116,
      105, 99, 107, 101, 114, 34, 58, 32, 34, 65, 65, 80, 76, 34, 44, 32,
      34, 99, 111, 109, 112, 97, 110, 121, 95, 110, 97, 109, 101, 34, 58,
      32, 34, 65, 112, 112, 108, 101, 32, 73, 110, 99, 46, 34, 44, 32, 34,
      99, 117, 114, 114, 101, 110, 116, 95, 112, 114, 105, 99, 101, 34, 58,
      32, 50, 50, 49, 46, 52, 44, 32, 34, 97, 110, 97, 108, 121, 115, 105,
      115, 34, 58, 32, 34, 72, 111, 108, 100, 46, 34, 44, 32, 34, 109, 101,
      116, 114, 105, 99, 115, 34, 58, 32, 123, 34, 112, 101, 95, 114, 97,
      116, 105, 111, 34, 58, 32, 52, 48, 46, 48, 51, 125, 44, 32, 34, 112,
      101, 114, 105, 111, 100, 34, 58, 32, 34, 51, 109, 111, 34, 125>>

\* a comparison record: '{"analysis_type": "comparison", "stocks": [{"ticker": "AAPL"}, {"ticker": "MSFT"}]}'
RAW_COMPARISON ==
    <<123, 34, 97, 110, 97, 108, 121, 115, 105, 115, 95, 116, 121, 112, 101,
      34, 58, 32, 34, 99, 111, 109, 112, 97, 114, 105, 115, 111, 110, 34,
      44, 32, 34, 115, 116, 111, 99, 107, 115, 34, 58, 32, 91, 123, 34, 116,
      105, 99, 107, 101, 114, 34, 58, 32, 34, 65, 65, 80, 76, 34, 125, 44,
      32, 123, 34, 116, 105, 99, 107, 101, 114, 34, 58, 32, 34, 77, 83, 70,
      84, 34, 125, 93, 125>>

\* a JSON object without analysis_type and the other fields: '{"ticker": "AAPL"}'
RAW_TICKER_ONLY ==
    <<123, 34, 116, 105, 99, 107, 101, 114, 34, 58, 32, 34, 65, 65, 80, 76,
      34, 125>>

\* the empty JSON object: '{}'
RAW_EMPTY_OBJECT ==
    <<123, 125>>

\* a JSON array: '[1, 2]'
RAW_LIST ==
    <<91, 49, 44, 32, 50, 93>>

\* a JSON number: '42'
RAW_NUMBER ==
    <<52, 50>>

\* prose: 'AAPL looks fine'
RAW_PROSE ==
    <<65, 65, 80, 76, 32, 108, 111, 111, 107, 115, 32, 102, 105, 110, 101>>

\* prose with braces: 'use {ticker} here'
RAW_PROSE_BRACES ==
    <<117, 115, 101, 32, 123, 116, 105, 99, 107, 101, 114, 125, 32, 104,
      101, 114, 101>>

\* a JSON object with a brace inside a string: '{"analysis": "a } b"}'
RAW_BRACE_IN_STRING ==
    <<123, 34, 97, 110, 97, 108, 121, 115, 105, 115, 34, 58, 32, 34, 97, 32,
      125, 32, 98, 34, 125>>

\* an object that is never closed: '{"analysis_type": "single"'
RAW_UNBALANCED ==
    <<123, 34, 97, 110, 97, 108, 121, 115, 105, 115, 95, 116, 121, 112, 101,
      34, 58, 32, 34, 115, 105, 110, 103, 108, 101, 34>>

\* the text the agent puts before its answer:
\*   ''
\*   'Final Answer: '
\*   'Thought: done\nFinal Answer: '
\*   '```json\n'
\*   'Here: '
RawPrefixes ==
    {<<>>,
     <<70, 105, 110, 97, 108, 32, 65, 110, 115, 119, 101, 114, 58, 32>>,
     <<84, 104, 111, 117, 103, 104, 116, 58, 32, 100, 111, 110, 101, 10, 70,
       105, 110, 97, 108, 32, 65, 110, 115, 119, 101, 114, 58, 32>>,
     <<96, 96, 96, 106, 115, 111, 110, 10>>,
     <<72, 101, 114, 101, 58, 32>>}

\* the text the agent puts after its answer:
\*   ''
\*   '\n```'
\*   ' Done.'
\*   '\n'
RawSuffixes ==
    {<<>>,
     <<10, 96, 96, 96>>,
     <<32, 68, 111, 110, 101, 46>>,
     <<10>>}

RawBodies ==
    {RAW_SINGLE, RAW_COMPARISON, RAW_TICKER_ONLY, RAW_EMPTY_OBJECT, RAW_LIST, RAW_NUMBER, RAW_PROSE, RAW_PROSE_BRACES, RAW_BRACE_IN_STRING, RAW_UNBALANCED}

\* the texts of 999, 1000 and 1001 characters "aaa..."
LongOutputs ==
    {[i \in 1..n |-> 97] : n \in {999, 1000, 1001}}

\* result["output"] of the agent runs
RawOutputs ==
    {p \o b \o s : p \in RawPrefixes, b \in RawBodies, s \in RawSuffixes}
        \cup LongOutputs

\* self.agent_executor.invoke({"input": query}): it raises, or returns a
\* result without "output", or a result whose "output" is a text
AgentRuns ==
    {[kind |-> "raise", output |-> None, message |-> BOOM],
     [kind |-> "missing", output |-> None, message |-> None]}
        \cup {[kind |-> "output", output |-> t, message |-> None] :
                t \in RawOutputs}

\* json.loads on the texts that reach it here: the documents it accepts,
\* each with the value it returns
JsonDocuments ==
    <<
    \* '{"analysis_type": "single", "ticker": "AAPL", "company_name": "Apple Inc.", "current_price": 221.4, "analysis": "Hold.", "metrics": {"pe_ratio": 40.03}, "period": "3mo"}'
    [text |-> RAW_SINGLE,
     value |-> PyDict({"analysis_type", "ticker", "company_name", "current_price", "analysis", "metrics", "period"},
              [k \in {"analysis_type", "ticker", "company_name", "current_price", "analysis", "metrics", "period"} |-> CASE k = "analysis_type" -> "str" [] k = "ticker" -> "str" [] k = "company_name" -> "str" [] k = "current_price" -> "float" [] k = "analysis" -> "str" [] k = "metrics" -> "dict" [] k = "period" -> "str"],
              <<115, 105, 110, 103, 108, 101>>,
              <<65, 65, 80, 76>>,
              <<72, 111, 108, 100, 46>>,
              None)],
    \* '{"analysis_type": "comparison", "stocks": [{"ticker": "AAPL"}, {"ticker": "MSFT"}]}'
    [text |-> RAW_COMPARISON,
     value |-> PyDict({"analysis_type", "stocks"},
              [k \in {"analysis_type", "stocks"} |-> CASE k = "analysis_type" -> "str" [] k = "stocks" -> "list"],
              <<99, 111, 109, 112, 97, 114, 105, 115, 111, 110>>,
              None,
              None,
              None)],
    \* '{"ticker": "AAPL"}'
    [text |-> RAW_TICKER_ONLY,
     value |-> PyDict({"ticker"},
              [k \in {"ticker"} |-> CASE k = "ticker" -> "str"],
              None,
              <<65, 65, 80, 76>>,
              None,
              None)],
    \* '{}'
    [text |-> RAW_EMPTY_OBJECT,
     value |-> PyDict({},
              [k \in {} |-> ""],
              None,
              None,
              None,
              None)],
    \* '[1, 2]'
    [text |-> RAW_LIST,
     value |-> PyOther("list")],
    \* '42'
    [text |-> RAW_NUMBER,
     value |-> PyOther("int")],
    \* '{"analysis": "a } b"}'
    [text |-> RAW_BRACE_IN_STRING,
     value |-> PyDict({"analysis"},
              [k \in {"analysis"} |-> CASE k = "analysis" -> "str"],
              None,
              None,
              <<97, 32, 125, 32, 98>>,
              None)]
    >>

\* the whitespace json.loads skips around a document
JsonWhitespace == {9, 10, 13, 32}

RECURSIVE JsonStrip(_)
JsonStrip(s) ==
    IF s # <<>> /\ Head(s) \in JsonWhitespace THEN JsonStrip(Tail(s))
    ELSE IF s # <<>> /\ s[Len(s)] \in JsonWhitespace
    THEN JsonStrip(SubSeq(s, 1, Len(s) - 1))
    ELSE s

\* json.loads(text): the value, or ok = FALSE for json.JSONDecodeError
json_loads(text) ==
    LET found == {i \in 1..Len(JsonDocuments) :
                    JsonDocuments[i].text = JsonStrip(text)}
    IN  IF found = {} THEN [ok |-> FALSE, value |-> PyOther("NoneType")]
        ELSE [ok |-> TRUE,
              value |-> JsonDocuments[CHOOSE i \in found : TRUE].value]

\* "UNKNOWN"
UNKNOWN ==
    <<85, 78, 75, 78, 79, 87, 78>>

\* "ERROR"
ERROR_TICKER ==
    <<69, 82, 82, 79, 82>>

\* "single", "comparison", "error"
SINGLE ==
    <<115, 105, 110, 103, 108, 101>>
COMPARISON ==
    <<99, 111, 109, 112, 97, 114, 105, 115, 111, 110>>
ERROR_TYPE ==
    <<101, 114, 114, 111, 114>>

\* "..."
ELLIPSIS ==
    <<46, 46, 46>>

\* the most characters of the text kept in the fallback record
ANALYSIS_LIMIT == 1000

\* "분석 중 오류가 발생했습니다: "
ANALYSIS_ERROR_PREFIX ==
    <<48516, 49437, 32, 51473, 32, 50724, 47448, 44032, 32, 48156, 49373,
      54664, 49845, 45768, 45796, 58, 32>>

\* the keys and value types of the two records analyze builds itself
RecordKeys ==
    {"analysis_type", "ticker", "company_name", "current_price", "analysis",
     "metrics", "period"}

RecordTypes(keys) ==
    [k \in keys |->
        CASE k = "current_price" -> "int"
          [] k = "metrics" -> "dict"
          [] OTHER -> "str"]

\* the record built on json.JSONDecodeError, from the text that was parsed
FallbackRecord(output) ==
    PyDict(RecordKeys, RecordTypes(RecordKeys), SINGLE, UNKNOWN,
           IF Len(output) < ANALYSIS_LIMIT THEN output
           ELSE SubSeq(output, 1, ANALYSIS_LIMIT) \o ELLIPSIS,
           None)

\* the record built by the outer except, from str(e)
ErrorRecord(message) ==
    PyDict(RecordKeys \cup {"error"}, RecordTypes(RecordKeys \cup {"error"}),
           ERROR_TYPE, ERROR_TICKER, ANALYSIS_ERROR_PREFIX \o message,
           message)

\* type(v).__name__
PyTypeName(kind) ==
    CASE kind = "list" -> <<108, 105, 115, 116>>
      [] kind = "int" -> <<105, 110, 116>>
      [] kind = "str" -> <<115, 116, 114>>
      [] kind = "float" -> <<102, 108, 111, 97, 116>>
      [] kind = "bool" -> <<98, 111, 111, 108>>
      [] OTHER -> <<78, 111, 110, 101, 84, 121, 112, 101>>

\* str(e) of the AttributeError of output.get on a value that is no dict:
\* "'list' object has no attribute 'get'"
NoAttributeGet(kind) ==
    <<39>> \o PyTypeName(kind) \o
    <<39, 32, 111, 98, 106, 101, 99, 116, 32, 104, 97, 115, 32, 110, 111,
      32, 97, 116, 116, 114, 105, 98, 117, 116, 101, 32, 39, 103, 101, 116,
      39>>

Raised(message) ==
    [raised |-> TRUE, message |-> message, value |-> PyOther("NoneType")]

Returned(value) ==
    [raised |-> FALSE, message |-> None, value |-> value]

\* the body of the try of analyze: it returns a value or raises
analyze_try(run) ==
    IF run.kind = "raise" THEN Raised(run.message)
    ELSE IF run.kind = "missing" THEN Returned(EMPTY_DICT)
    ELSE LET text == ExtractJson(run.output)
             parsed == json_loads(text)
         IN  IF ~parsed.ok THEN Returned(FallbackRecord(text))
             ELSE IF parsed.value.kind # "dict"
             THEN Raised(NoAttributeGet(parsed.value.kind))
             ELSE Returned(parsed.value)

\* analyze with the exception of the try left to the caller
analyze_no_handler(run) == analyze_try(run)

\* FinancialAnalyst.analyze(query)
analyze(run) ==
    LET r == analyze_try(run)
    IN  IF r.raised THEN Returned(ErrorRecord(r.message)) ELSE r

----------------------------------------------------------------------------
(* analyze on its own: one call on one agent run.                          *)

InitAnalyze ==
    /\ pc = "analyze"
    /\ prev = "START"
    /\ state = InitialState(<<>>)
    /\ executed = [n \in Nodes |-> 0]
    /\ calls = [c \in Capabilities |-> 0]
    /\ label = "unset"
    /\ agent_choice = "unset"
    /\ call_args \in AgentRuns
    /\ call_result = NoCall

\* result = financial_analyst.analyze(query)
AnalyzeCall ==
    /\ pc = "analyze"
    /\ call_result' = analyze(call_args)
    /\ pc' = IF call_result'.raised THEN "RAISED" ELSE "analyzed"
    /\ UNCHANGED <<prev, state, executed, calls, label, agent_choice, call_args>>

AnalyzeSpec == InitAnalyze /\ [][AnalyzeCall]_vars

----------------------------------------------------------------------------
(* generate_report on its own: one call, with the tool loop of the         *)
(* temporary AgentExecutor spelled out.                                    *)

\* a request with a save keyword only: "save it"
Q_SAVE ==
    <<115, 97, 118, 101, 32, 105, 116>>

\* a request with a Korean chart keyword only: "차트"
Q_CHART_KO ==
    <<52264, 53944>>

ReportRequests == {Letters(5), Q_CHART, Q_CHART_KO, Q_SAVE, Q_BOTH}

\* the names of self.tools
ReportTools ==
    {"draw_stock_chart", "draw_valuation_radar", "save_report_to_file"}

\* the tools the LLM of the loop names in its actions, in order
ToolAttempts ==
    {<<>>} \cup {<<t>> : t \in ReportTools}
           \cup {<<t, u>> : t \in ReportTools, u \in ReportTools}

Range(s) == {s[i] : i \in 1..Len(s)}

\* temp_executor.invoke: AgentExecutor(tools=available_tools) runs a named
\* tool only when it is among its tools; any other name gets the invalid-tool
\* observation, which holds no path
ExecutorRun(tools, attempts, raises) ==
    IF raises
    THEN [raises |-> TRUE, text |-> BOOM, has_output |-> FALSE, steps |-> <<>>]
    ELSE [raises |-> FALSE, text |-> GOOD_REPORT, has_output |-> TRUE,
          steps |-> [i \in 1..Len(attempts) |->
                        IF attempts[i] \in Range(tools)
                        THEN StepOf(attempts[i])
                        ELSE [tool |-> attempts[i], path |-> None]]]

\* what one call of generate_report invokes, in order: "llm" for
\* self.llm.invoke of _generate_report_directly, "agent_executor" for
\* temp_executor.invoke, and the tools the executor ran
Invoked(user_request, analysis_data, attempts) ==
    IF analysis_data.keys = {} THEN <<>>
    ELSE IF available_tools(user_request) = <<>>
    THEN IF Get(analysis_data, "analysis_type", "single")
                \in {"single", "comparison"}
         THEN <<"llm">> ELSE <<>>
    ELSE <<"agent_executor">>
         \o SelectSeq(attempts,
                      LAMBDA t : t \in Range(available_tools(user_request)))

InitReport ==
    /\ pc = "generate_report"
    /\ prev = "START"
    /\ state = InitialState(<<>>)
    /\ executed = [n \in Nodes |-> 0]
    /\ calls = [c \in Capabilities |-> 0]
    /\ label = "unset"
    /\ agent_choice = "unset"
    /\ call_args \in [user_request : ReportRequests,
                      analysis_data : AnalysisOutcomes,
                      gen : GenOutcomes,
                      attempts : ToolAttempts,
                      agent_raises : BOOLEAN]
    /\ call_result = NoCall

\* result = report_generator.generate_report(user_request, analysis_data)
GenerateReportCall ==
    /\ pc = "generate_report"
    /\ LET tools == available_tools(call_args.user_request)
       IN  call_result' =
             [returned |-> generate_report(
                              call_args.user_request, call_args.analysis_data,
                              call_args.gen,
                              ExecutorRun(tools, call_args.attempts,
                                          call_args.agent_raises)),
              tools |-> tools,
              invoked |-> Invoked(call_args.user_request,
                                  call_args.analysis_data,
                                  call_args.attempts)]
    /\ pc' = "reported"
    /\ UNCHANGED <<prev, state, executed, calls, label, agent_choice, call_args>>

ReportSpec == InitReport /\ [][GenerateReportCall]_vars

----------------------------------------------------------------------------
(* Retriever.retrieve on its own: one call on one ranking of the store.    *)

\* the most entries of a ranking of the store
MaxRanking == 4

\* the relevance scores of the entries, in hundredths
Scores == {90, 50, 30, 29, 20}

\* page_content of the n-th entry of a ranking: "d1", "d2", ...
DocText(n) == <<100, 48 + n>>

\* the rankings similarity_search_with_relevance_scores produces: the
\* entries in descending order of their scores
Rankings ==
    UNION {{[i \in 1..n |-> [doc |-> DocText(i), score |-> s[i]]] :
              s \in {t \in [1..n -> Scores] :
                        \A i \in 1..(n - 1) : t[i] >= t[i + 1]}} :
           n \in 0..MaxRanking}

InitRetrieve ==
    /\ pc = "retrieve"
    /\ prev = "START"
    /\ state = InitialState(<<>>)
    /\ executed = [n \in Nodes |-> 0]
    /\ calls = [c \in Capabilities |-> 0]
    /\ label = "unset"
    /\ agent_choice = "unset"
    /\ call_args \in [ranking : Rankings,
                      k : {NoArg} \cup 0..MaxRanking,
                      threshold : {NoArg, 0, 30, 50, 100}]
    /\ call_result = NoCall

\* results = retriever.retrieve(query, k, threshold)
RetrieveCall ==
    /\ pc = "retrieve"
    /\ call_result' = Retriever_retrieve(call_args.ranking, call_args.k,
                                         call_args.threshold)
    /\ pc' = "retrieved"
    /\ UNCHANGED <<prev, state, executed, calls, label, agent_choice, call_args>>

RetrieveSpec == InitRetrieve /\ [][RetrieveCall]_vars

----------------------------------------------------------------------------
(* Two generate_report invocations in one process (threads of one          *)
(* interpreter): they share the module variable _current_analysis_data_json *)
(* of report_generator.py, which the chart tools read.                     *)

Invocations == {1, 2}

\* _get_current_analysis_data()
get_current_analysis_data(shared) ==
    IF shared.current_analysis_data_json # None
          /\ shared.current_analysis_data_json # <<>>
    THEN shared.current_analysis_data_json
    ELSE EMPTY_JSON

\* the analysis records the two invocations are called with
ConcurrentData ==
    {AnalysisDict("single", "AAPL", SINGLE_JSON),
     AnalysisDict("error", "ERROR", ERROR_JSON)}

InitConcurrentReport ==
    /\ pc = [i \in Invocations |-> "start"]
    /\ prev = "START"
    /\ state = [current_analysis_data_json |-> None]
    /\ executed = [n \in Nodes |-> 0]
    /\ calls = [c \in Capabilities |-> 0]
    /\ label = "unset"
    /\ agent_choice = "unset"
    /\ call_args \in [Invocations ->
                        [user_request : {Letters(5), Q_CHART},
                         analysis_data : ConcurrentData]]
    /\ call_result = [i \in Invocations |-> <<>>]

\* _set_current_analysis_data(analysis_json), then the choice of the path:
\* the direct generation ends the invocation, the tool loop is entered
\* otherwise
SetCurrentAnalysisData(i) ==
    /\ pc[i] = "start"
    /\ state' = [state EXCEPT !.current_analysis_data_json =
                                  call_args[i].analysis_data.json]
    /\ pc' = [pc EXCEPT ![i] =
                IF available_tools(call_args[i].user_request) = <<>>
                THEN "done" ELSE "loop"]
    /\ UNCHANGED <<prev, executed, calls, label, agent_choice, call_args,
                   call_result>>

\* the tool loop of invocation i runs draw_stock_chart or
\* draw_valuation_radar: financial_data_json = _get_current_analysis_data()
ChartToolReads(i) ==
    /\ pc[i] = "loop"
    /\ Len(call_result[i]) < MaxToolCalls
    /\ call_result' = [call_result EXCEPT ![i] =
                          Append(@, get_current_analysis_data(state))]
    /\ UNCHANGED <<pc, prev, state, executed, calls, label, agent_choice,
                   call_args>>

\* temp_executor.invoke returns
ToolLoopEnds(i) ==
    /\ pc[i] = "loop"
    /\ pc' = [pc EXCEPT ![i] = "done"]
    /\ UNCHANGED <<prev, state, executed, calls, label, agent_choice,
                   call_args, call_result>>

ConcurrentReportNext ==
    \E i \in Invocations :
        \/ SetCurrentAnalysisData(i)
        \/ ChartToolReads(i)
        \/ ToolLoopEnds(i)

ConcurrentReportSpec ==
    InitConcurrentReport /\ [][ConcurrentReportNext]_vars

----------------------------------------------------------------------------
(* ChatHistoryDB (src/src/database/chat_history.py): one object, so one    *)
(* sqlite3 connection (check_same_thread=False), used by two threads, each *)
(* appending to its own session.  A statement acts on the connection's     *)
(* open transaction; commit() and rollback() end that transaction for      *)
(* every thread using the connection.                                      *)

\* the threads, each with the session_id of the same number
Threads == {1, 2}

\* the `limit` arguments of get_history
Limits == {1, 2}

\* content of the messages of a session: "s1", "s2"
ContentOf(session_id) == <<115, 48 + session_id>>

\* the calls a thread makes; an add_message whose INSERT sqlite rejects
\* (sqlite3.Error, as for content=None against NOT NULL) has valid = FALSE
HistoryCalls(t) ==
    {[op |-> "add_message", session_id |-> t, status |-> s, valid |-> TRUE,
      limit |-> 0, timestamp |-> 0] : s \in {"success", "failed"}}
    \cup {[op |-> "add_message", session_id |-> t, status |-> "success",
           valid |-> FALSE, limit |-> 0, timestamp |-> 0]}
    \cup {[op |-> "clear_session", session_id |-> t, status |-> "",
           valid |-> TRUE, limit |-> 0, timestamp |-> 0]}
    \cup {[op |-> "get_history", session_id |-> s, status |-> "",
           valid |-> TRUE, limit |-> l, timestamp |-> 0] :
            s \in Threads, l \in Limits}

\* the row of the INSERT of add_message
RowOf(call) ==
    [session_id |-> call.session_id, role |-> "user",
     content |-> ContentOf(call.session_id), status |-> call.status,
     timestamp |-> call.timestamp]

\* ORDER BY timestamp DESC over rows of distinct timestamps
RECURSIVE OrderByTimestampDesc(_)
OrderByTimestampDesc(rows) ==
    IF rows = {} THEN <<>>
    ELSE LET latest == CHOOSE r \in rows :
                          \A o \in rows : o.timestamp <= r.timestamp
         IN  <<latest>> \o OrderByTimestampDesc(rows \ {latest})

\* WHERE session_id = ? with the status test left out
SelectedRows_any_status(table, session_id) ==
    {table[n] : n \in {k \in 1..Len(table) :
                          table[k].session_id = session_id}}

\* WHERE session_id = ? AND status = 'success'
SelectedRows(table, session_id) ==
    {table[n] : n \in {k \in 1..Len(table) :
                          /\ table[k].session_id = session_id
                          /\ table[k].status = "success"}}

\* the rows of the SELECT of get_history turned into message dicts
get_history(table, session_id, limit) ==
    LET rows == OrderByTimestampDesc(SelectedRows(table, session_id))
        n == IF limit < Len(rows) THEN limit ELSE Len(rows)
    IN  [k \in 1..n |->
            [role |-> rows[k].role, content |-> rows[k].content,
             timestamp |-> rows[k].timestamp]]

\* DELETE FROM chat_history WHERE session_id = ?
DeleteSession(table, session_id) ==
    SelectSeq(table, LAMBDA r : r.session_id # session_id)

\* the state after __init__ and setup_database: an empty chat_history table.
\* state: table is the content of chat_history as the connection sees it
\* (the committed rows and the changes of its open transaction), committed
\* the content after the last commit, clock the last reading of
\* datetime.now (successive readings differ)
InitHistory ==
    /\ pc = [t \in Threads |-> "idle"]
    /\ prev = "START"
    /\ state = [table |-> <<>>, committed |-> <<>>, clock |-> 0]
    /\ executed = [n \in Nodes |-> 0]
    /\ calls = [c \in Capabilities |-> 0]
    /\ label = "unset"
    /\ agent_choice = "unset"
    /\ call_args = [t \in Threads |-> NoCall]
    /\ call_result = [t \in Threads |-> <<>>]

\* the record a finished call leaves in call_result
Finished(call, ok, result) == [call |-> call, ok |-> ok, result |-> result]

\* a thread enters a call; add_message reads the clock first:
\* utc_timestamp = datetime.now(timezone.utc)
BeginCall(t) ==
    /\ pc[t] = "idle"
    /\ Len(call_result[t]) < MaxCalls
    /\ \E call \in HistoryCalls(t) :
          IF call.op = "add_message"
          THEN /\ state' = [state EXCEPT !.clock = @ + 1]
               /\ call_args' = [call_args EXCEPT ![t] =
                                   [call EXCEPT !.timestamp = state.clock + 1]]
          ELSE /\ state' = state
               /\ call_args' = [call_args EXCEPT ![t] = call]
    /\ pc' = [pc EXCEPT ![t] = "execute"]
    /\ UNCHANGED <<prev, executed, calls, label, agent_choice, call_result>>

\* cursor.execute(...) inside `with self._get_cursor()`: the statement acts
\* on the open transaction, or raises sqlite3.Error
Execute(t) ==
    /\ pc[t] = "execute"
    /\ LET call == call_args[t]
       IN  CASE call.op = "add_message" /\ call.valid ->
                  /\ state' = [state EXCEPT !.table = Append(@, RowOf(call))]
                  /\ pc' = [pc EXCEPT ![t] = "commit"]
                  /\ call_args' = call_args
             [] call.op = "add_message" /\ ~call.valid ->
                  /\ state' = state
                  /\ pc' = [pc EXCEPT ![t] = "rollback"]
                  /\ call_args' = call_args
             [] call.op = "clear_session" ->
                  /\ state' = [state EXCEPT !.table =
                                  DeleteSession(@, call.session_id)]
                  /\ pc' = [pc EXCEPT ![t] = "commit"]
                  /\ call_args' = call_args
             [] call.op = "get_history" ->
                  /\ state' = state
                  /\ pc' = [pc EXCEPT ![t] = "commit"]
                  /\ call_args' = [call_args EXCEPT ![t] =
                        [call EXCEPT !.timestamp = 0] @@
                        [rows |-> get_history(state.table, call.session_id,
                                              call.limit)]]
    /\ UNCHANGED <<prev, executed, calls, label, agent_choice, call_result>>

\* self.conn.commit() after the yield of _get_cursor; the call returns
Commit(t) ==
    /\ pc[t] = "commit"
    /\ state' = [state EXCEPT !.committed = state.table]
    /\ call_result' = [call_result EXCEPT ![t] =
          Append(@, Finished(call_args[t], TRUE,
                             IF call_args[t].op = "get_history"
                             THEN call_args[t].rows ELSE <<>>))]
    /\ call_args' = [call_args EXCEPT ![t] = NoCall]
    /\ pc' = [pc EXCEPT ![t] = "idle"]
    /\ UNCHANGED <<prev, executed, calls, label, agent_choice>>

\* the except of _get_cursor: self.conn.rollback(), then the raise that
\* add_message catches and logs
Rollback(t) ==
    /\ pc[t] = "rollback"
    /\ state' = [state EXCEPT !.table = state.committed]
    /\ call_result' = [call_result EXCEPT ![t] =
          Append(@, Finished(call_args[t], FALSE, <<>>))]
    /\ call_args' = [call_args EXCEPT ![t] = NoCall]
    /\ pc' = [pc EXCEPT ![t] = "idle"]
    /\ UNCHANGED <<prev, executed, calls, label, agent_choice>>

HistoryNext ==
    \E t \in Threads :
        \/ BeginCall(t)
        \/ Execute(t)
        \/ Commit(t)
        \/ Rollback(t)

HistorySpec == InitHistory /\ [][HistoryNext]_vars

\* the calls made one after the other: a call begins when no other is open
SequentialHistoryNext ==
    \E t \in Threads :
        /\ \A u \in Threads \ {t} : pc[u] = "idle"
        /\ \/ BeginCall(t)
           \/ Execute(t)
           \/ Commit(t)
           \/ Rollback(t)

SequentialHistorySpec == InitHistory /\ [][SequentialHistoryNext]_vars

----------------------------------------------------------------------------
(* Properties of the workflow runs (Spec, FairSpec).                       *)

Retries == Get(state, "retries", 0)

RunQuestion == Get(state, "question", <<>>)

\* the run ended on the "end" label of a failed quality evaluation
EndedOnFailedEvaluation ==
    /\ pc = "END"
    /\ prev = "quality_evaluator"
    /\ ~Get(state, "quality_passed", FALSE)

\* C1: the retries counter never exceeds 3; once it has reached 3 the run
\* is over (no node is due any more); and a run that a failed quality
\* evaluation ended has retries = 3, so a run whose evaluations all fail is
\* ended by the third one.
C1_RetryBound ==
    /\ Retries <= 3
    /\ (Retries >= 3 => pc = "END")
    /\ (EndedOnFailedEvaluation => Retries = 3)

\* C1 witness: a question of trimmed length >= 5, three evaluations that
\* all failed with reason incorrect, the run over with retries = 3.
C1_Witness ==
    /\ EndedOnFailedEvaluation
    /\ Len(Strip(RunQuestion)) >= 5
    /\ state.quality_detail.failure_reason = "incorrect"
    /\ executed["quality_evaluator"] = 3
    /\ Retries = 3

\* C2: every run comes to its end (END, or the exception of a capability
\* that did not return a value).
C2_Terminates == <>(pc \in {"END", "RAISED"})

\* C2 witness: a run that took the retry edge as often as it can be taken
\* and then reached END.
C2_Witness ==
    /\ pc = "END"
    /\ executed["request_analyst"] = 3
    /\ executed["quality_evaluator"] = 3

\* C3: only quality_evaluator_node changes retries: by +1 when the
\* evaluation fails, to 0 when it passes; every other node leaves it.
C3_RetriesOnlyInEvaluator ==
    [][ IF pc = "quality_evaluator"
        THEN Get(state', "retries", 0) =
                IF Get(state', "quality_detail", NoDetail).status = "pass"
                THEN 0
                ELSE Retries + 1
        ELSE Get(state', "retries", 0) = Retries ]_vars

\* C3 witness: an evaluation passed after an earlier one had failed, and
\* retries is back to 0.
C3_Witness ==
    /\ prev = "quality_evaluator"
    /\ executed["quality_evaluator"] >= 2
    /\ Get(state, "quality_passed", FALSE)
    /\ Retries = 0

\* C4: when a failed quality evaluation with retries >= 3 ends the run, the
\* answer of the final state is the exhaustion message.
C4_ExhaustionAnswer ==
    (EndedOnFailedEvaluation /\ Retries >= 3)
        => Get(state, "answer", <<>>) = EXHAUSTED_ANSWER

\* C5: after a failed quality evaluation of a question of trimmed length
\* < 5 (rewrite_query asks for user input) the run is over, whatever
\* retries is.
C5_ClarificationEnds ==
    (/\ prev = "quality_evaluator"
     /\ ~Get(state, "quality_passed", FALSE)
     /\ Len(Strip(RunQuestion)) < 5)
        => pc = "END"

\* the edges of the graph, with the exception of a node as leaving the graph
GraphEdges ==
    {<<"request_analyst", "END">>, <<"request_analyst", "supervisor">>,
     <<"supervisor", "financial_analyst">>, <<"supervisor", "report_generator">>,
     <<"supervisor", "END">>,
     <<"financial_analyst", "report_generator">>,
     <<"report_generator", "quality_evaluator">>,
     <<"quality_evaluator", "request_analyst">>, <<"quality_evaluator", "END">>}

\* C6: a run starts at request_analyst and every step follows an edge of
\* the graph (or leaves it by an exception).
C6_OnlyGraphEdges ==
    /\ pc = "request_analyst"
    /\ [][ pc' = "RAISED" \/ <<pc, pc'>> \in GraphEdges ]_vars

\* C6 witness: a finished run that went through every node and took the
\* retry edge.
C6_Witness ==
    /\ pc = "END"
    /\ \A n \in Nodes : executed[n] >= 1
    /\ executed["request_analyst"] >= 2

\* C7: a question that is empty after trimming ends the run in the first
\* node with route = end and the empty-question answer; the classifier and
\* the later nodes are never invoked.
C7_EmptyQuestion ==
    (Strip(RunQuestion) = <<>> /\ pc # "request_analyst")
        => /\ pc = "END"
           /\ Get(state, "route", "None") = "end"
           /\ Get(state, "answer", <<>>) = EMPTY_QUESTION_ANSWER
           /\ \A c \in Capabilities : calls[c] = 0
           /\ \A n \in Nodes \ {"request_analyst"} : executed[n] = 0
           /\ executed["request_analyst"] = 1

\* C7 witness: the run of a question made of whitespace only is over.
C7_Witness ==
    /\ pc = "END"
    /\ RunQuestion # <<>>
    /\ Strip(RunQuestion) = <<>>

\* C8: whenever request_analyst_node got the label not_finance, it set
\* route = end and the fixed redirect answer, and the run is over.
C8_NotFinanceEnds ==
    (prev = "request_analyst" /\ label = "not_finance")
        => /\ pc = "END"
           /\ Get(state, "route", "None") = "end"
           /\ Get(state, "answer", <<>>) = NOT_FINANCE_DEFAULT_ANSWER

\* C8 witness: the label not_finance on a re-classification after a retry.
C8_Witness ==
    /\ prev = "request_analyst"
    /\ label = "not_finance"
    /\ executed["quality_evaluator"] >= 1

\* C9: whenever the router returned something other than the two agents,
\* supervisor_node set route = end and the no-suitable-agent answer, and
\* the run ended normally.
C9_NoAgentEnds ==
    (/\ prev = "supervisor"
     /\ agent_choice \notin {"financial_analyst", "vector_search_agent", "RAISE"})
        => /\ pc = "END"
           /\ Get(state, "route", "None") = "end"
           /\ Get(state, "answer", <<>>) = NO_AGENT_ANSWER

\* C9 witness: the router returned none.
C9_Witness ==
    /\ prev = "supervisor"
    /\ agent_choice = "none"
    /\ pc = "END"

\* C16: a quality evaluation that passes ends the run at once, with
\* quality_passed true, retries 0 and the evaluated answer left as it was;
\* a run whose first evaluation passed has executed request_analyst once.
C16_PassEndsRun ==
    /\ [][ (/\ pc = "quality_evaluator"
            /\ Get(state', "quality_detail", NoDetail).status = "pass")
           => /\ pc' = "END"
              /\ Get(state', "quality_passed", FALSE)
              /\ Get(state', "retries", -1) = 0
              /\ Get(state', "answer", None) = Get(state, "answer", <<>>) ]_vars
    /\ []( (executed["quality_evaluator"] = 1
               /\ Get(state, "quality_passed", FALSE))
            => (pc = "END" /\ executed["request_analyst"] = 1) )

\* C16 witness: the first evaluation of a run passed a generated report,
\* which is the answer of the final state.
C16_Witness ==
    /\ pc = "END"
    /\ prev = "quality_evaluator"
    /\ executed["quality_evaluator"] = 1
    /\ Get(state, "quality_passed", FALSE)
    /\ Get(state, "answer", <<>>) = GOOD_REPORT

----------------------------------------------------------------------------
(* Properties of evaluate_answer (EvalSpec).                               *)

\* C10: an answer that is None, empty or of trimmed length < 10 gets
\* {fail, 0, empty}, and the judge is not invoked.
C10_EmptyCheckFirst ==
    (/\ pc = "evaluated"
     /\ \/ state.answer = None
        \/ Len(Strip(state.answer)) < 10)
        => /\ state.quality_detail =
                [status |-> "fail", score |-> 0, failure_reason |-> "empty"]
           /\ calls["judge"] = 0

\* C10 witness: an evaluated answer shorter than 10 characters after
\* trimming that holds an error keyword.
C10_Witness ==
    /\ pc = "evaluated"
    /\ state.answer # None
    /\ Len(Strip(state.answer)) < 10
    /\ Len(state.answer) >= 10
    /\ HasErrorKeyword(state.answer)


\* the result dicts of evaluate_answer
FailEmpty == [status |-> "fail", score |-> 0, failure_reason |-> "empty"]

FailError == [status |-> "fail", score |-> 0, failure_reason |-> "error"]

\* two characters are the same letter up to case (ASCII)
SameLetter(a, b) ==
    \/ a = b
    \/ a \in 65..90 /\ a + 32 = b
    \/ b \in 65..90 /\ b + 32 = a

\* the text s holds the keyword k in some letter case
HoldsIgnoringCase(s, k) ==
    \E i \in 1..(Len(s) - Len(k) + 1) :
       \A j \in 1..Len(k) : SameLetter(s[i + j - 1], k[j])

MentionsErrorKeyword(s) ==
    \E n \in 1..Len(error_keywords) : HoldsIgnoringCase(s, error_keywords[n])

\* the evaluated answer is not None and has ten characters or more after
\* trimming
LongAnswer == state.answer # None /\ Len(Strip(state.answer)) >= 10

\* C11: an answer of trimmed length >= 10 that holds an error keyword in
\* any letter case gets {fail, 0, error}, and the judge is not invoked.
C11_ErrorKeywordFails ==
    (pc = "evaluated" /\ LongAnswer /\ MentionsErrorKeyword(state.answer))
        => /\ state.quality_detail = FailError
           /\ calls["judge"] = 0

\* C11 witness: an evaluated answer holding a keyword in capitals, for
\* which the judge would have answered 5.
C11_Witness ==
    /\ pc = "evaluated"
    /\ LongAnswer
    /\ MentionsErrorKeyword(state.answer)
    /\ ~HasErrorKeyword_case_sensitive(state.answer)
    /\ ~call_args.raises
    /\ call_args.content = J_5

\* the first of the digits 1..5 in a judge response, 0 without one
FirstDigit1to5(content) ==
    LET at == {i \in 1..Len(content) : content[i] \in 49..53}
    IN  IF at = {} THEN 0
        ELSE content[CHOOSE i \in at : \A j \in at : i <= j] - 48

\* the answer went past the empty and the keyword check and the judge
\* answered
Judged ==
    /\ pc = "evaluated"
    /\ LongAnswer
    /\ ~MentionsErrorKeyword(state.answer)

\* C12: for an answer past both checks the score is the first digit 1..5
\* of the judge response, 0 without one; the result is {pass, score, null}
\* when score >= threshold and {fail, score, incorrect} otherwise.
C12_ScoreAndThreshold ==
    (Judged /\ ~call_args.raises)
        => LET score == FirstDigit1to5(call_args.content)
           IN  state.quality_detail =
                  IF score >= QUALITY_THRESHOLD
                  THEN [status |-> "pass", score |-> score,
                        failure_reason |-> "None"]
                  ELSE [status |-> "fail", score |-> score,
                        failure_reason |-> "incorrect"]

\* C12 witness: the response "6 of 9, so 2" judged an answer: score 2, the
\* threshold, passes.
C12_Witness ==
    /\ Judged
    /\ ~call_args.raises
    /\ call_args.content = J_69_2
    /\ state.quality_detail.status = "pass"
    /\ state.quality_detail.score = QUALITY_THRESHOLD

\* C13: every result has status fail exactly when failure_reason is not
\* null, a pass has score >= threshold, and the score is in 0..5.
C13_ResultInvariant ==
    pc = "evaluated"
        => /\ call_result = state.quality_detail
           /\ call_result.status \in {"pass", "fail"}
           /\ (call_result.status = "fail") <=> (call_result.failure_reason # "None")
           /\ call_result.status = "pass" => call_result.score >= QUALITY_THRESHOLD
           /\ call_result.score \in 0..5

\* C13 witness: a judged answer failed with a score of 1, below the
\* threshold.
C13_Witness ==
    /\ Judged
    /\ call_result.status = "fail"
    /\ call_result.failure_reason = "incorrect"
    /\ call_result.score = 1

\* C14: when the judge step raises, evaluate_answer returns
\* {fail, 0, error}; no such evaluation passes.
C14_JudgeRaiseFails ==
    (Judged /\ call_args.raises)
        => /\ call_result = FailError
           /\ calls["judge"] = 1

\* C14 witness: the judge step raised on an answer past both checks.
C14_Witness ==
    /\ Judged
    /\ call_args.raises
    /\ call_result.status = "fail"


----------------------------------------------------------------------------
(* Properties of rewrite_query and of the runs that call it (RewriteSpec). *)

\* C15: rewrite_query asks for user input exactly when the trimmed query is
\* shorter than 5, and returns the query as it got it, for every
\* failure_reason; so no step of a run changes the question of the state.
C15_RewriteKeepsQuery ==
    /\ [](pc = "rewritten"
            => /\ call_result.needs_user_input =
                    (Len(Strip(call_args.original_query)) < 5)
               /\ call_result.rewritten_query = call_args.original_query)
    /\ [][Get(state', "question", <<>>) = Get(state, "question", <<>>)]_vars

\* C15 witness: a query of five characters, three after trimming, for which
\* rewrite_query asked for user input.
C15_Witness ==
    /\ pc = "rewritten"
    /\ Len(call_args.original_query) >= 5
    /\ Len(Strip(call_args.original_query)) < 5
    /\ Strip(call_args.original_query) # <<>>
    /\ call_result.needs_user_input


----------------------------------------------------------------------------
(* Properties of analyze called on its own (AnalyzeSpec).                  *)

\* the call of analyze has returned or raised
Analyzed == pc \in {"analyzed", "RAISED"}

\* an exception leaves the try of analyze: the agent run raised, or the
\* parsed JSON value is no object and output.get raised
ExceptionInTry(run) ==
    \/ run.kind = "raise"
    \/ /\ run.kind = "output"
       /\ json_loads(ExtractJson(run.output)).ok
       /\ json_loads(ExtractJson(run.output)).value.kind # "dict"

SinglePayload(v) ==
    /\ {"ticker", "company_name", "current_price", "analysis", "metrics"}
          \subseteq v.keys
    /\ v.types["ticker"] = "str"
    /\ v.types["company_name"] = "str"
    /\ v.types["current_price"] \in {"int", "float"}
    /\ v.types["analysis"] = "str"
    /\ v.types["metrics"] = "dict"

\* the payload of a comparison record: a list under "stocks"
ComparisonPayload(v) ==
    "stocks" \in v.keys /\ v.types["stocks"] = "list"

WellTyped(v) ==
    /\ v.kind = "dict"
    /\ v.analysis_type \in {SINGLE, COMPARISON, ERROR_TYPE}
    /\ v.analysis_type \in {SINGLE, ERROR_TYPE} => SinglePayload(v)
    /\ v.analysis_type = COMPARISON => ComparisonPayload(v)

\* C18: every value analyze returns is a well-typed record: its
\* analysis_type is single, comparison or error, and its payload matches.
C18_ReturnsWellTypedRecord ==
    pc = "analyzed" => WellTyped(call_result.value)

\* the raw text as the fallback record is said to keep it
CutRawText(raw) ==
    IF Len(raw) > ANALYSIS_LIMIT
    THEN SubSeq(raw, 1, ANALYSIS_LIMIT) \o ELLIPSIS
    ELSE raw

\* C19: for a raw output that is no valid JSON and holds neither the
\* "Final Answer:" marker nor a json code fence, analyze returns a single
\* record with ticker "UNKNOWN" whose analysis is the whole raw text, cut to
\* 1000 characters and "..." when longer.
C19_FallbackKeepsRawText ==
    (/\ Analyzed
     /\ call_args.kind = "output"
     /\ ~json_loads(call_args.output).ok
     /\ ~Contains(call_args.output, FINAL_ANSWER)
     /\ ~Contains(call_args.output, FENCE_JSON))
        => /\ ~call_result.raised
           /\ call_result.value.analysis_type = SINGLE
           /\ call_result.value.ticker = UNKNOWN
           /\ call_result.value.analysis = CutRawText(call_args.output)


----------------------------------------------------------------------------
(* Properties of generate_report called on its own (ReportSpec).           *)

ChartTools == {"draw_stock_chart", "draw_valuation_radar"}

GenerationRaised ==
    /\ call_args.analysis_data.keys # {}
    /\ IF call_result.tools = <<>>
       THEN /\ call_args.analysis_data.analysis_type \in {"single", "comparison"}
            /\ call_args.gen.raises
       ELSE call_args.agent_raises

\* str(e) of the exception the generation raised
GenerationMessage ==
    IF call_result.tools = <<>> THEN call_args.gen.text ELSE BOOM

\* C21: when the generation raised, in the tool-loop path or in the direct
\* path, generate_report returns status "error" and a report that embeds the
\* error message and the analysis data; it never returns status "success"
\* for a generation that raised.
C21_GenerationErrorGivesErrorStatus ==
    (pc = "reported" /\ GenerationRaised) =>
        /\ call_result.returned.status = "error"
        /\ call_result.returned.report # None
        /\ Contains(call_result.returned.report, GenerationMessage)
        /\ Contains(call_result.returned.report, call_args.analysis_data.json)


----------------------------------------------------------------------------
(* Further properties of the workflow runs (Spec).                         *)

\* the text is the synthetic report of the except branch of generate_report
IsErrorReport(answer) ==
    /\ Len(answer) >= Len(ERROR_REPORT_HEAD)
    /\ SubSeq(answer, 1, Len(ERROR_REPORT_HEAD)) = ERROR_REPORT_HEAD

\* C22: when generate_report returned its error report during a run, the
\* run goes on to quality_evaluator; that evaluation fails with reason
\* "error" without invoking the judge, retries is incremented, and the run
\* retries, or ends once retries has reached MAX_RETRIES, with
\* quality_passed false.
C22_ErrorReportFailsEvaluation ==
    [][ /\ (pc = "report_generator"
              /\ IsErrorReport(Get(state', "answer", <<>>)))
           => pc' = "quality_evaluator"
        /\ (pc = "quality_evaluator"
              /\ IsErrorReport(Get(state, "answer", <<>>)))
           => /\ Get(state', "quality_detail", NoDetail).status = "fail"
              /\ Get(state', "quality_detail", NoDetail).failure_reason
                    = "error"
              /\ calls'["judge"] = calls["judge"]
              /\ ~Get(state', "quality_passed", TRUE)
              /\ Get(state', "retries", 0) = Get(state, "retries", 0) + 1
              /\ pc' = IF Get(state', "retries", 0) < MAX_RETRIES
                       THEN "request_analyst" ELSE "END" ]_vars

\* C22 witness: generate_report returned its error report in the third
\* cycle of a run, and the run is at quality_evaluator with that report.
C22_Witness ==
    /\ pc = "quality_evaluator"
    /\ prev = "report_generator"
    /\ IsErrorReport(Get(state, "answer", <<>>))
    /\ Get(state, "retries", 0) = 2


\* report_generator_node is due in retrieval mode
RetrievalModeDue ==
    pc = "report_generator" /\ Get(state, "request_type", "rag") = "rag"

\* what _generate_report_directly returns for the rag record:
\* "❌ 지원하지 않는 분석 타입입니다: rag"
UnsupportedRagNotice == UNSUPPORTED_TYPE_HEAD \o TYPE_RAG

\* C24: in retrieval mode, when retrieve returned no passage,
\* report_generator_node completes, the run goes on, and the answer is a
\* report on the empty search (so not the notice that the record type is
\* not supported).
C24_EmptyRetrievalReport ==
    [][ (/\ RetrievalModeDue
         /\ pc' # "RAISED"
         /\ Get(state', "rag_search_results", <<0>>) = <<>>)
        => /\ pc' = "quality_evaluator"
           /\ Get(state', "answer", <<>>) # UnsupportedRagNotice ]_vars

\* C25: in retrieval mode the step of report_generator_node never raises,
\* also when the vector search raised: the node goes on to report
\* generation with an analysis record, and the run goes on to
\* quality_evaluator.
C25_SearchFailureIsEmptyResult ==
    [][ RetrievalModeDue
        => /\ pc' = "quality_evaluator"
           /\ "analysis_data" \in state'.keys
           /\ "answer" \in state'.keys ]_vars

\* the answers the workflow writes itself after a failed evaluation
FailureNotices == {DETAIL_DEFAULT_ANSWER, RETRY_ANSWER, EXHAUSTED_ANSWER}

\* the answers the workflow writes itself when a run ends before any report
EarlyEndNotices ==
    {EMPTY_QUESTION_ANSWER, NOT_FINANCE_DEFAULT_ANSWER, NO_AGENT_ANSWER}

\* C29: a report that failed the quality gate is never the answer run()
\* returns: a failed evaluation overwrites the answer (with the
\* clarification prompt, the retry notice or the exhaustion message) before
\* the run can end, so the answer of a finished run is a generated report
\* only when its evaluation passed.
C29_FailedReportNotReturned ==
    /\ [][(pc = "quality_evaluator" /\ ~Get(state', "quality_passed", FALSE))
             => /\ Get(state', "answer", <<>>) \in FailureNotices
                /\ Get(state', "answer", <<>>) # Get(state, "answer", <<>>)]_vars
    /\ [](pc = "END"
             => \/ Get(state, "answer", <<>>)
                      \in FailureNotices \cup EarlyEndNotices
                \/ /\ prev = "quality_evaluator"
                   /\ Get(state, "quality_passed", FALSE))

\* C29 witness: the third evaluation of a run failed on a generated report
\* and the run is over with the retry notice as its answer.
C29_Witness ==
    /\ EndedOnFailedEvaluation
    /\ executed["report_generator"] = 3
    /\ calls["generate"] >= 3
    /\ Retries = 3
    /\ Get(state, "answer", <<>>) = RETRY_ANSWER

\* C30: when the classifier labels a question not_finance, the answer of
\* the final state of run() is the redirect message request_analysis
\* returns for that label (Config.NOT_FINANCE_RESPONSE), not another text.
C30_NotFinanceRedirect ==
    (prev = "request_analyst" /\ label = "not_finance")
        => /\ pc = "END"
           /\ Get(state, "answer", <<>>) = NOT_FINANCE_RESPONSE

----------------------------------------------------------------------------
(* Properties of Retriever.retrieve called on its own (RetrieveSpec).      *)

\* the k and the threshold in force for the call
TopK == IF call_args.k # NoArg THEN call_args.k ELSE 3

MinThreshold ==
    IF call_args.threshold # NoArg THEN call_args.threshold ELSE 30

\* the positions of the ranking that are among the top k and reach the
\* threshold
KeptPositions ==
    {i \in 1..Len(call_args.ranking) :
        i <= TopK /\ call_args.ranking[i].score >= MinThreshold}

\* the example of the claim: scores 0.9, 0.5, 0.2 and threshold 0.3
ExampleReturnsFirstTwo ==
    (/\ pc = "retrieved"
     /\ call_args.threshold = 30
     /\ call_args.k \in {NoArg, 3, 4}
     /\ Len(call_args.ranking) = 3
     /\ call_args.ranking[1].score = 90
     /\ call_args.ranking[2].score = 50
     /\ call_args.ranking[3].score = 20)
        => call_result = SubSeq(call_args.ranking, 1, 2)

\* C23: retrieve returns exactly the candidates among the store's top k
\* whose score is >= the threshold, in the order the store gave them, which
\* is descending; an entry whose score equals the threshold is kept; for
\* the scores 0.9, 0.5, 0.2 and the threshold 0.3 these are the first two.
C23_RetrieveFilters ==
    pc = "retrieved" =>
        /\ Len(call_result) = Cardinality(KeptPositions)
        /\ \A j \in 1..Len(call_result) :
              \E i \in KeptPositions :
                 /\ Cardinality({m \in KeptPositions : m <= i}) = j
                 /\ call_result[j] = call_args.ranking[i]
        /\ \A j \in 1..(Len(call_result) - 1) :
              call_result[j].score >= call_result[j + 1].score
        /\ ExampleReturnsFirstTwo

\* C23 witness: scores 0.9, 0.3, 0.2 with threshold 0.3 and k = 3: the first
\* two entries are returned, the second with a score equal to the threshold.
C23_Witness ==
    /\ pc = "retrieved"
    /\ call_args.k = 3
    /\ call_args.threshold = 30
    /\ Len(call_args.ranking) = 3
    /\ call_args.ranking[1].score = 90
    /\ call_args.ranking[2].score = 30
    /\ call_args.ranking[3].score = 20
    /\ call_result = SubSeq(call_args.ranking, 1, 2)


----------------------------------------------------------------------------
(* Properties of concurrent generate_report invocations                    *)
(* (ConcurrentReportSpec).                                                 *)

\* C26: a chart tool invoked on behalf of one invocation reads the analysis
\* data of that invocation only, under every interleaving.
C26_ChartToolReadsOwnData ==
    \A i \in Invocations :
        \A n \in 1..Len(call_result[i]) :
            call_result[i][n] = call_args[i].analysis_data.json

----------------------------------------------------------------------------
(* Properties of concurrent add_message calls on one ChatHistoryDB         *)
(* (HistorySpec).                                                          *)

\* the finished add_message calls of thread t that returned without a
\* logged error and that no later clear_session of t deleted
SavedAppends(t) ==
    {call_result[t][n].call : n \in {k \in 1..Len(call_result[t]) :
        /\ call_result[t][k].call.op = "add_message"
        /\ call_result[t][k].ok
        /\ \A later \in (k + 1)..Len(call_result[t]) :
              call_result[t][later].call.op # "clear_session"
        /\ ~(pc[t] # "idle" /\ call_args[t].op = "clear_session")}}

\* the rows of a table
RowsOf(table) == {table[n] : n \in 1..Len(table)}

\* C27: for concurrent add_message calls from different sessions on one
\* ChatHistoryDB, under every interleaving, each append that completes
\* without error is in the table afterwards with its own session_id and
\* fields, and an error with its rollback during one session's append never
\* discards or alters another session's append.
C27_ConcurrentAppendsKept ==
    /\ [](\A t \in Threads : \A call \in SavedAppends(t) :
             RowOf(call) \in RowsOf(state.table))
    /\ [][\A t \in Threads :
             (pc[t] = "rollback" /\ pc'[t] = "idle")
                 => \A row \in RowsOf(state.table) :
                       row.session_id # t => row \in RowsOf(state'.table)]_vars

----------------------------------------------------------------------------
(* Properties of get_history and clear_session after a sequence of calls   *)
(* (SequentialHistorySpec).                                                *)

\* the positions in the calls of session s of its successful turns: the
\* add_message calls with status success that were saved after the last
\* clear_session
SuccessTurns(s) ==
    {k \in 1..Len(call_result[s]) :
        /\ call_result[s][k].call.op = "add_message"
        /\ call_result[s][k].ok
        /\ call_result[s][k].call.status = "success"
        /\ \A later \in (k + 1)..Len(call_result[s]) :
              call_result[s][later].call.op # "clear_session"}

\* the message get_history gives for a saved turn
MessageOf(call) ==
    [role |-> "user", content |-> ContentOf(call.session_id),
     timestamp |-> call.timestamp]

\* the k-th most recent of the successful turns of session s
KthRecent(s, k) ==
    CHOOSE n \in SuccessTurns(s) :
        Cardinality({later \in SuccessTurns(s) : later > n}) = k - 1

\* thread t is returning from get_history with call_args[t].rows
ReturnsHistory(t) ==
    /\ pc[t] = "commit"
    /\ call_args[t].op = "get_history"

\* C28: after any sequence of add_message and clear_session calls,
\* get_history(session_id, limit) returns exactly the turns of that session
\* whose status is success (no failed turn, no turn of another session), the
\* most recent first and at most limit of them; after
\* clear_session(session_id) it returns the empty list for that session.
C28_HistoryOfSession ==
    \A t \in Threads :
        ReturnsHistory(t) =>
            LET s == call_args[t].session_id
                rows == call_args[t].rows
                n == IF call_args[t].limit < Cardinality(SuccessTurns(s))
                     THEN call_args[t].limit
                     ELSE Cardinality(SuccessTurns(s))
            IN  /\ Len(rows) = n
                /\ \A k \in 1..n :
                      rows[k] = MessageOf(call_result[s][KthRecent(s, k)].call)
                /\ (/\ Len(call_result[s]) > 0
                    /\ call_result[s][Len(call_result[s])].call.op
                           = "clear_session")
                       => rows = <<>>

\* get_history with limit 1 returns the later of two successful turns of
\* another thread's session that also has a cleared earlier history or a
\* failed turn elsewhere
C28_Witness ==
    \E t \in Threads : \E s \in Threads \ {t} :
        /\ ReturnsHistory(t)
        /\ call_args[t].session_id = s
        /\ call_args[t].limit = 1
        /\ Cardinality(SuccessTurns(s)) = 2
        /\ Len(call_args[t].rows) = 1
        /\ call_args[t].rows[1].timestamp = 2
        /\ call_args[t].rows[1].content = ContentOf(s)


============================================================================
